---- MODULE Spec2Model ----
(***************************************************************************)
(* Verification model of the relay core:                                   *)
(*   - the per-key promise-chain lock of the session store,                *)
(*   - the in-memory session map and its persisted, versioned index,       *)
(*     in the variant keyed by session key and the one keyed by thread id, *)
(*     and the temporary-file protocol of its writes,                      *)
(*   - the turn accumulator (notification reducer),                        *)
(*   - the turn orchestrator (createCodexThread / runCodexTurn) driving    *)
(*     one child process through CodexAppServerClient.                     *)
(* Each component has its own specification over the shared variables; the *)
(* variables of the other components stay at their initial values.         *)
(***************************************************************************)
EXTENDS Integers, Sequences, FiniteSets, TLC

VARIABLES
    \* ---- withSessionLock (session store) ----
    calls,          \* call id -> record of one withSessionLock invocation
    nCalls,         \* number of withSessionLock invocations made so far
    sessionQueue,   \* sessionQueue map: key -> id of the call whose queueItem is the tail (0 = no entry)
    \* ---- session store and persisted index ----
    sessionStore,       \* sessionStore map: key -> session or NoSession
    persistenceState,   \* persistenceState: [ready, workspaceCwd, data]
    file,               \* content of ~/.relay/sessions.json: [exists, doc]
    now,                \* clock read by new Date()
    setLog,             \* history: workspace -> key -> what the calls made under that workspace left persisted
    lastSet,            \* history: key -> what the last call on the key did since the map was last rebuilt
    lastCall,           \* history: what the last store call threw and what became of its temporary file
    \* ---- turn accumulator (pure reducer) ----
    accumulator,        \* TurnAccumulator of the accumulator specification
    seen,               \* history: what the notifications applied so far carried
    \* ---- turn orchestrator and process transport ----
    turn,               \* record holding the state of one createCodexThread/runCodexTurn call
    \* ---- JSON-RPC client ----
    client,             \* record holding the state of one CodexAppServerClient
    \* ---- message handler ----
    handled,            \* history: the message handleIncomingText handled last
    \* ---- pure functions ----
    evaluated            \* the arguments drawn for a pure function and what it returned for them

lockVars == <<calls, nCalls, sessionQueue>>
storeVars == <<sessionStore, persistenceState, file, now, setLog, lastSet, lastCall>>
accVars == <<accumulator, seen>>
turnVars == <<turn>>
clientVars == <<client>>
handlerVars == <<handled>>
pureVars == <<evaluated>>
vars == <<calls, nCalls, sessionQueue, sessionStore, persistenceState, file, now,
          setLog, lastSet, lastCall, accumulator, seen, turn, client, handled,
          evaluated>>

\* no pure function has been evaluated
NothingEvaluated == [fn |-> "none"]

(***************************************************************************)
(* Bounds                                                                  *)
(***************************************************************************)
MaxCalls == 3
\* number of setSession/clearSession calls and file creations (each reads the clock)
MaxTime == 2
\* number of notification lines the child writes during one call
MaxNotifs == 2

Keys == {"p2p:c1", "group:c1:u1"}

(***************************************************************************)
(* withSessionLock: one promise chain per session key                      *)
(***************************************************************************)
CallIds == 1..MaxCalls

NoCall == [st |-> "idle", key |-> "", prev |-> 0, running |-> "pending",
           item |-> "pending", runs |-> 0, result |-> "none"]

\* `previous`: the tail read from sessionQueue, or Promise.resolve() when absent.
PreviousState(c) ==
    IF calls[c].prev = 0 THEN "fulfilled" ELSE calls[calls[c].prev].item

\* Mutation: run() is invoked without waiting for `previous` to settle.
ThenRunEager(prevState) ==
    "run"

\* previous.then(() => run(), () => run()): run starts once previous has
\* settled, whether it was fulfilled or rejected.
ThenRun(prevState) ==
    IF prevState \in {"fulfilled", "rejected"} THEN "run" ELSE "wait"

\* running.then(() => undefined, () => undefined): the queue item is fulfilled
\* whatever the outcome of running.
QueueItemState(runningState) ==
    IF runningState \in {"fulfilled", "rejected"} THEN "fulfilled" ELSE "pending"

\* Mutation: the caller awaits the queue item instead of its own run.
AwaitQueueItem(c) ==
    IF calls[c].item = "fulfilled" THEN "ok" ELSE "fail"

\* `return await running`: the caller gets the outcome of its own run.
AwaitRunning(c) ==
    IF calls[c].running = "fulfilled" THEN "ok" ELSE "fail"

\* withSessionLock, synchronous part: read the tail, chain running and
\* queueItem behind it, store queueItem as the new tail.
WithSessionLock(k) ==
    /\ nCalls < MaxCalls
    /\ LET c == nCalls + 1 IN
       /\ calls' = [calls EXCEPT ![c] =
                       [NoCall EXCEPT !.st = "queued", !.key = k,
                                      !.prev = sessionQueue[k]]]
       /\ sessionQueue' = [sessionQueue EXCEPT ![k] = c]
       /\ nCalls' = c
    /\ UNCHANGED <<storeVars, accVars, turnVars, clientVars, handlerVars, pureVars>>

\* The reaction on `previous` fires: run() starts executing.
StartRun(c) ==
    /\ calls[c].st = "queued"
    /\ ThenRun(PreviousState(c)) = "run"
    /\ calls' = [calls EXCEPT ![c].st = "running", ![c].runs = @ + 1]
    /\ UNCHANGED <<nCalls, sessionQueue, storeVars, accVars, turnVars, clientVars, handlerVars, pureVars>>

\* run() resolves or rejects, and `running` settles with it.
RunSettles(c, ok) ==
    /\ calls[c].st = "running"
    /\ calls' = [calls EXCEPT ![c].st = "ran",
                              ![c].running = IF ok THEN "fulfilled" ELSE "rejected"]
    /\ UNCHANGED <<nCalls, sessionQueue, storeVars, accVars, turnVars, clientVars, handlerVars, pureVars>>

\* The first reaction registered on `running`: queueItem settles.
QueueItemSettles(c) ==
    /\ calls[c].st = "ran"
    /\ calls[c].item = "pending"
    /\ calls' = [calls EXCEPT ![c].item = QueueItemState(calls[c].running)]
    /\ UNCHANGED <<nCalls, sessionQueue, storeVars, accVars, turnVars, clientVars, handlerVars, pureVars>>

\* Mutation: the finally block leaves the queue entry in place.
LockFinallyKeepingEntry(c) ==
    /\ calls[c].st = "ran"
    /\ calls[c].item # "pending"
    /\ calls' = [calls EXCEPT ![c].st = "done", ![c].result = AwaitRunning(c)]
    /\ UNCHANGED <<nCalls, sessionQueue, storeVars, accVars, turnVars, clientVars,
                   handlerVars, pureVars>>

\* The second reaction registered on `running`: `await running` resumes, the
\* finally block drops the queue entry if it is still this call's item, and
\* the caller receives the outcome.
LockFinally(c) ==
    /\ calls[c].st = "ran"
    /\ calls[c].item # "pending"
    /\ sessionQueue' = IF sessionQueue[calls[c].key] = c
                       THEN [sessionQueue EXCEPT ![calls[c].key] = 0]
                       ELSE sessionQueue
    /\ calls' = [calls EXCEPT ![c].st = "done", ![c].result = AwaitRunning(c)]
    /\ UNCHANGED <<nCalls, storeVars, accVars, turnVars, clientVars, handlerVars, pureVars>>

\* No call made, no queue entry.
NoCalls == [c \in CallIds |-> NoCall]
EmptyQueue == [k \in Keys |-> 0]

LockNext ==
    \/ \E k \in Keys : WithSessionLock(k)
    \/ \E c \in CallIds : StartRun(c)
    \/ \E c \in CallIds, ok \in BOOLEAN : RunSettles(c, ok)
    \/ \E c \in CallIds : QueueItemSettles(c)
    \/ \E c \in CallIds : LockFinally(c)

(***************************************************************************)
(* Turn accumulator (codex/turn-state.ts)                                  *)
(***************************************************************************)
\* null in a TurnAccumulator field
Null == "<null>"
\* a payload field that is absent or not a string
NoText == "<absent>"

\* Message texts carried by notifications; "" and " " are the blank ones.
Texts == {"m1", "m2", "", " "}

\* A notification is a flat view of the JSON line:
\*   hasParams : params is an object (FALSE: params missing or null)
\*   hasInner  : params.item / params.msg / params.turn is present
\*   type      : params.item.type
\*   text      : params.message / item.text / msg.last_agent_message /
\*               turn.error.message when it is a string, else NoText
\*   status    : params.turn.status
ErrorNotifications ==
    [method : {"error"}, hasParams : {TRUE}, hasInner : {FALSE},
     type : {""}, text : {"m1", "", NoText}, status : {""}]
    \cup [method : {"error"}, hasParams : {FALSE}, hasInner : {FALSE},
          type : {""}, text : {NoText}, status : {""}]

ItemNotifications ==
    [method : {"item/completed"}, hasParams : {TRUE}, hasInner : {TRUE},
     type : {"agentMessage", "reasoning"}, text : Texts \cup {NoText}, status : {""}]
    \cup [method : {"item/completed"}, hasParams : BOOLEAN, hasInner : {FALSE},
          type : {""}, text : {NoText}, status : {""}]

TaskNotifications ==
    [method : {"codex/event/task_complete"}, hasParams : {TRUE}, hasInner : {TRUE},
     type : {""}, text : Texts \cup {NoText}, status : {""}]
    \cup [method : {"codex/event/task_complete"}, hasParams : BOOLEAN,
          hasInner : {FALSE}, type : {""}, text : {NoText}, status : {""}]

TurnCompletedNotifications ==
    [method : {"turn/completed"}, hasParams : {TRUE}, hasInner : {TRUE},
     type : {""}, text : {"m2", "", NoText}, status : {"completed", "failed"}]
    \cup [method : {"turn/completed"}, hasParams : BOOLEAN, hasInner : {FALSE},
          type : {""}, text : {NoText}, status : {""}]

OtherNotifications ==
    [method : {"thread/started"}, hasParams : {TRUE}, hasInner : {FALSE},
     type : {""}, text : {"m1"}, status : {""}]

Notifications ==
    ErrorNotifications \cup ItemNotifications \cup TaskNotifications
        \cup TurnCompletedNotifications \cup OtherNotifications

createTurnAccumulator ==
    [turnCompleted |-> FALSE, turnError |-> Null,
     lastAgentMessageByItem |-> Null, lastAgentMessageByTask |-> Null]

\* The result of one applyTurnNotification call: the accumulator as the call
\* left it, and whether the call threw (a property read on a missing params).
Applied(acc, threw) == [acc |-> acc, threw |-> threw]

\* method === 'error'
ApplyError(acc, n) ==
    Applied([acc EXCEPT
                !.turnError = IF n.hasParams /\ n.text # NoText
                              THEN n.text
                              ELSE "Codex returned an unknown error event",
                !.turnCompleted = TRUE],
            FALSE)

\* extractAgentMessage
extractAgentMessage(n) ==
    IF n.method = "item/completed"
    THEN IF n.hasInner /\ n.type = "agentMessage" /\ n.text # NoText
         THEN n.text ELSE Null
    ELSE IF n.method = "codex/event/task_complete"
    THEN IF n.hasInner /\ n.text # NoText THEN n.text ELSE Null
    ELSE Null

\* method === 'item/completed': params.item is read without a guard on params
ApplyItemCompleted(acc, n) ==
    IF ~n.hasParams THEN Applied(acc, TRUE)
    ELSE IF extractAgentMessage(n) # Null
    THEN Applied([acc EXCEPT !.lastAgentMessageByItem = extractAgentMessage(n)], FALSE)
    ELSE Applied(acc, FALSE)

\* method === 'codex/event/task_complete': params.msg is read without a guard
ApplyTaskComplete(acc, n) ==
    IF ~n.hasParams THEN Applied(acc, TRUE)
    ELSE IF extractAgentMessage(n) # Null
    THEN Applied([acc EXCEPT !.lastAgentMessageByTask = extractAgentMessage(n)], FALSE)
    ELSE Applied(acc, FALSE)

\* Mutation: the error field is assigned from the payload unconditionally, so
\* a clean turn/completed clears an earlier error.
ApplyTurnCompletedClearing(acc, n) ==
    IF ~n.hasParams THEN Applied([acc EXCEPT !.turnCompleted = TRUE], TRUE)
    ELSE Applied([acc EXCEPT !.turnCompleted = TRUE,
                             !.turnError = IF n.hasInner /\ n.text \notin {NoText, ""}
                                           THEN n.text ELSE Null],
                 FALSE)

\* method === 'turn/completed': turnCompleted is set first, then params.turn
\* is read without a guard on params.
ApplyTurnCompleted(acc, n) ==
    LET done == [acc EXCEPT !.turnCompleted = TRUE] IN
    IF ~n.hasParams THEN Applied(done, TRUE)
    ELSE IF n.hasInner /\ n.text \notin {NoText, ""}
    THEN Applied([done EXCEPT !.turnError = n.text], FALSE)
    ELSE IF n.hasInner /\ n.status = "failed"
    THEN Applied([done EXCEPT !.turnError = "Codex turn failed"], FALSE)
    ELSE Applied(done, FALSE)

applyTurnNotification(acc, n) ==
    IF n.method = "error" THEN ApplyError(acc, n)
    ELSE IF n.method = "item/completed" THEN ApplyItemCompleted(acc, n)
    ELSE IF n.method = "codex/event/task_complete" THEN ApplyTaskComplete(acc, n)
    ELSE IF n.method = "turn/completed" THEN ApplyTurnCompleted(acc, n)
    ELSE Applied(acc, FALSE)

\* Mutation: the item-level message is preferred over the task-level one.
resolveTurnMessageItemFirst(acc) ==
    IF acc.lastAgentMessageByItem # Null
    THEN acc.lastAgentMessageByItem ELSE acc.lastAgentMessageByTask

\* lastAgentMessageByTask ?? lastAgentMessageByItem
resolveTurnMessage(acc) ==
    IF acc.lastAgentMessageByTask # Null
    THEN acc.lastAgentMessageByTask ELSE acc.lastAgentMessageByItem

\* History of what the applied notifications carried, recorded from the
\* notifications themselves.
IsSettlingEvent(n) == n.method \in {"error", "turn/completed"}

CarriesTaskMessage(n) ==
    n.method = "codex/event/task_complete" /\ n.hasParams /\ n.hasInner /\ n.text # NoText

CarriesItemMessage(n) ==
    /\ n.method = "item/completed" /\ n.hasParams /\ n.hasInner
    /\ n.type = "agentMessage" /\ n.text # NoText

NothingSeen ==
    [task |-> Null, item |-> Null, lastSettling |-> FALSE, afterSettled |-> FALSE,
     last |-> [method |-> "none", hasParams |-> FALSE, hasInner |-> FALSE,
               type |-> "", text |-> NoText, status |-> ""],
     errorBefore |-> Null, resolvedBefore |-> FALSE]

Observe(s, acc, n, resolved) ==
    [task |-> IF CarriesTaskMessage(n) THEN n.text ELSE s.task,
     item |-> IF CarriesItemMessage(n) THEN n.text ELSE s.item,
     lastSettling |-> IsSettlingEvent(n),
     afterSettled |-> acc.turnCompleted,
     last |-> n,
     errorBefore |-> acc.turnError,
     resolvedBefore |-> resolved]

\* One call applyTurnNotification(accumulator, n) on the accumulator under test.
ApplyNotification(n) ==
    /\ accumulator' = applyTurnNotification(accumulator, n).acc
    /\ seen' = Observe(seen, accumulator, n, FALSE)
    /\ UNCHANGED <<lockVars, storeVars, turnVars, clientVars, handlerVars, pureVars>>

AccNext ==
    \/ \E n \in ErrorNotifications : ApplyNotification(n)
    \/ \E n \in ItemNotifications : ApplyNotification(n)
    \/ \E n \in TaskNotifications : ApplyNotification(n)
    \/ \E n \in TurnCompletedNotifications : ApplyNotification(n)
    \/ \E n \in OtherNotifications : ApplyNotification(n)

(***************************************************************************)
(* Session store and persisted index (session store with persistence)      *)
(***************************************************************************)
SESSION_FILE_VERSION == 1

\* Mutation: the version of the document is not looked at.
IsSessionFileVersionAny(version) ==
    TRUE

\* value.version !== SESSION_FILE_VERSION
IsSessionFileVersion(version) ==
    version = SESSION_FILE_VERSION

Workspaces == {"/a", "/b"}

\* Strings that the store trims are sequences of characters.
RECURSIVE TrimStart(_)
TrimStart(str) ==
    IF str # <<>> /\ Head(str) = " " THEN TrimStart(Tail(str)) ELSE str

RECURSIVE TrimEnd(_)
TrimEnd(str) ==
    IF str # <<>> /\ str[Len(str)] = " "
    THEN TrimEnd(SubSeq(str, 1, Len(str) - 1)) ELSE str

\* String.prototype.trim
Trim(str) == TrimEnd(TrimStart(str))

\* An optional title: has = FALSE is undefined.
NoTitle == [has |-> FALSE, chars |-> <<>>]
Title(chars) == [has |-> TRUE, chars |-> chars]

\* Mutation: the title is kept as given, blank or padded.
normalizeOptionalTitleKeep(title) ==
    title

normalizeOptionalTitle(title) ==
    IF ~title.has THEN NoTitle
    ELSE IF Len(Trim(title.chars)) = 0 THEN NoTitle
    ELSE Title(Trim(title.chars))

NoSession == [has |-> FALSE, threadId |-> <<>>, mode |-> "default", model |-> <<>>,
              cwd |-> "", title |-> NoTitle]

Session(threadId, mode, model, cwd, title) ==
    [has |-> TRUE, threadId |-> threadId, mode |-> mode, model |-> model,
     cwd |-> cwd, title |-> title]

\* The sessions handed to setSession: a normalised one, one with a padded
\* title, one recorded for another cwd with a blank title (and the thread id of
\* the first), one with a blank thread id.
Sessions ==
    { Session(<<"t", "1">>, "plan", <<"g">>, "/a", Title(<<"a", "b">>)),
      Session(<<"t", "2">>, "default", <<"g">>, "/a", Title(<<" ", "a", " ">>)),
      Session(<<"t", "1">>, "default", <<"g">>, "/b", Title(<<" ">>)),
      Session(<<" ">>, "default", <<"g">>, "/a", NoTitle) }

NoRef == [has |-> FALSE, threadId |-> <<>>, mode |-> "default", model |-> <<>>,
          title |-> NoTitle, savedAt |-> 0]

\* Mutation: every hydrated session gets the default mode.
hydrateSessionDefaultMode(sessionRef, cwd) ==
    Session(sessionRef.threadId, "default", sessionRef.model, cwd,
            normalizeOptionalTitle(sessionRef.title))

hydrateSession(sessionRef, cwd) ==
    Session(sessionRef.threadId, sessionRef.mode, sessionRef.model, cwd,
            normalizeOptionalTitle(sessionRef.title))

toPersistedSessionRef(session, savedAt) ==
    [has |-> TRUE, threadId |-> session.threadId, mode |-> session.mode,
     model |-> session.model, title |-> normalizeOptionalTitle(session.title),
     savedAt |-> savedAt]

\* PersistedWorkspaceSessions; present = FALSE is a workspace without entry.
NoWorkspaceSessions ==
    [present |-> FALSE,
     activeBySessionKey |-> [k \in Keys |-> NoRef],
     historyBySessionKey |-> [k \in Keys |-> <<>>]]

createEmptyPersistedSessionsFile(t) ==
    [version |-> SESSION_FILE_VERSION, updatedAt |-> t,
     workspaces |-> [w \in Workspaces |-> NoWorkspaceSessions]]

getOrCreateWorkspaceSessions(data, workspaceCwd) ==
    IF data.workspaces[workspaceCwd].present
    THEN data.workspaces[workspaceCwd]
    ELSE [NoWorkspaceSessions EXCEPT !.present = TRUE]

\* parsePersistedSessionRef: the checks that can fail on a written record
ValidSessionRef(ref) ==
    /\ Len(Trim(ref.threadId)) # 0
    /\ Len(Trim(ref.model)) # 0
    /\ ref.mode \in {"default", "plan"}

parsePersistedSessionRef(ref) ==
    [ref EXCEPT !.title = normalizeOptionalTitle(ref.title)]

\* parsePersistedSessionsFile / parseWorkspaceSessions: TRUE when no check throws
ValidSessionsFile(doc) ==
    /\ IsSessionFileVersion(doc.version)
    /\ \A w \in Workspaces : doc.workspaces[w].present =>
          \A k \in Keys :
             /\ doc.workspaces[w].activeBySessionKey[k].has =>
                   ValidSessionRef(doc.workspaces[w].activeBySessionKey[k])
             /\ \A i \in 1..Len(doc.workspaces[w].historyBySessionKey[k]) :
                   ValidSessionRef(doc.workspaces[w].historyBySessionKey[k][i])

parsePersistedSessionsFile(doc) ==
    [version |-> SESSION_FILE_VERSION, updatedAt |-> doc.updatedAt,
     workspaces |-> [w \in Workspaces |->
        [present |-> doc.workspaces[w].present,
         activeBySessionKey |-> [k \in Keys |->
            IF doc.workspaces[w].activeBySessionKey[k].has
            THEN parsePersistedSessionRef(doc.workspaces[w].activeBySessionKey[k])
            ELSE NoRef],
         historyBySessionKey |-> [k \in Keys |->
            [i \in 1..Len(doc.workspaces[w].historyBySessionKey[k]) |->
                parsePersistedSessionRef(doc.workspaces[w].historyBySessionKey[k][i])]]]]]

NoPersistence ==
    [ready |-> FALSE, workspaceCwd |-> "", data |-> createEmptyPersistedSessionsFile(0)]

\* path.join(homeDir, '.relay', SESSION_FILE_NAME)
FilePath == "~/.relay/sessions.json"

\* An error is the sequence of the parts its message is built from; NoError
\* stands for a call that returned.
NoError == <<>>

\* parsePersistedSessionsFile: value.version !== SESSION_FILE_VERSION
VersionError ==
    <<"Invalid relay session index at ", FilePath, ": version must be ",
      ToString(SESSION_FILE_VERSION), ".">>

\* parsePersistedSessionRef: the threadId of a record is blank
ThreadIdError ==
    <<"Invalid relay session index at ", FilePath, ": ", "<location>",
      ".threadId must be a non-empty string.">>

\* writePersistedSessionsFile: the error thrown from its catch block
IndexWriteError ==
    <<"Failed to write relay session index at ", FilePath, ": ", "<cause>">>

\* readPersistedSessionsFile: the error it throws on a document, the version
\* being checked before any record
ValidationError(doc) ==
    IF ~IsSessionFileVersion(doc.version) THEN VersionError
    ELSE IF ~ValidSessionsFile(doc) THEN ThreadIdError
    ELSE NoError

\* history values
Untouched == [kind |-> "untouched", s |-> NoSession]
Cleared == [kind |-> "cleared", s |-> NoSession]
Unknown == [kind |-> "unknown", s |-> NoSession]
WasSet(session) == [kind |-> "session", s |-> session]
ClearedAfter(entry) == [kind |-> "cleared", s |-> entry.s]
NothingCalled == [thrown |-> NoError, cleanup |-> "none"]
Returned == [thrown |-> NoError, cleanup |-> "none"]

getSession(sessionKey) == sessionStore[sessionKey]

\* ensureSessionFileExists
ensureSessionFileExists(f, t) ==
    IF f.exists THEN f
    ELSE [f EXCEPT !.exists = TRUE, !.doc = createEmptyPersistedSessionsFile(t)]

\* Mutation: the map is not emptied before the records are hydrated.
ClearedStoreKept(store) ==
    store

\* sessionStore.clear()
ClearedStore(store) ==
    [k \in Keys |-> NoSession]

\* initializeSessionStore({homeDir, workspaceCwd}); a validation error leaves
\* the module state as it was (the file may have been created).
InitializeSessionStore(w) ==
    LET ensured == ensureSessionFileExists(file, now)
        persisted == parsePersistedSessionsFile(ensured.doc)
        workspaceSessions == persisted.workspaces[w]
    IN
    /\ file' = ensured
    /\ now' = IF file.exists THEN now ELSE now + 1
    /\ lastCall' = [thrown |-> ValidationError(ensured.doc), cleanup |-> "none"]
    /\ IF ValidSessionsFile(ensured.doc)
       THEN /\ sessionStore' = [k \in Keys |->
                   IF workspaceSessions.present /\ workspaceSessions.activeBySessionKey[k].has
                   THEN hydrateSession(workspaceSessions.activeBySessionKey[k], w)
                   ELSE ClearedStore(sessionStore)[k]]
            /\ sessionQueue' = [k \in Keys |-> 0]
            /\ persistenceState' = [ready |-> TRUE, workspaceCwd |-> w, data |-> persisted]
            /\ lastSet' = [k \in Keys |-> Untouched]
       ELSE UNCHANGED <<sessionStore, sessionQueue, persistenceState, lastSet>>
    /\ UNCHANGED <<calls, nCalls, setLog, accVars, turnVars, clientVars, handlerVars, pureVars>>

\* What the file system does during one writePersistedSessionsFile call:
\*   temp    : writeFileSync wrote the temporary file completely, threw after
\*             creating it, or threw before creating it
\*   renamed : renameSync moved it over the target
\*   removed : rmSync in the catch block removed it (FALSE: rmSync threw)
WriteOutcomes ==
    { [temp |-> "complete", renamed |-> TRUE, removed |-> FALSE],
      [temp |-> "complete", renamed |-> FALSE, removed |-> TRUE],
      [temp |-> "complete", renamed |-> FALSE, removed |-> FALSE],
      [temp |-> "partial", renamed |-> FALSE, removed |-> TRUE],
      [temp |-> "partial", renamed |-> FALSE, removed |-> FALSE],
      [temp |-> "none", renamed |-> FALSE, removed |-> FALSE] }

Written == [temp |-> "complete", renamed |-> TRUE, removed |-> FALSE]

\* The outcomes the calls of the store specification meet: the write
\* succeeds, or it fails and leaves nothing behind.
StoreWriteOutcomes ==
    { Written, [temp |-> "partial", renamed |-> FALSE, removed |-> TRUE] }

\* Mutation: the content is moved over the target before the failure is
\* reported.
writePersistedSessionsFileOverTarget(f, data, io) ==
    IF io = Written
    THEN [file |-> [f EXCEPT !.exists = TRUE, !.doc = data], call |-> Returned]
    ELSE [file |-> [f EXCEPT !.exists = TRUE, !.doc = data],
          call |-> [thrown |-> IndexWriteError, cleanup |-> "removed"]]

\* writePersistedSessionsFile(filePath, data): the files afterwards, the error
\* thrown and what the catch block did with the temporary file
writePersistedSessionsFile(f, data, io) ==
    IF io = Written
    THEN [file |-> [f EXCEPT !.exists = TRUE, !.doc = data], call |-> Returned]
    ELSE [file |-> [f EXCEPT !.temps = IF io.temp # "none" /\ ~io.removed
                                        THEN @ + 1 ELSE @],
          call |-> [thrown |-> IndexWriteError,
                    cleanup |-> IF io.temp = "none" THEN "noTemp"
                                ELSE IF io.removed THEN "removed" ELSE "failed"]]

\* Mutation: the new record replaces the history list of its key.
persistSetSessionReplacingHistory(data, workspaceCwd, sessionKey, session, savedAt) ==
    LET sessionRef == toPersistedSessionRef(session, savedAt)
        ws == getOrCreateWorkspaceSessions(data, workspaceCwd)
    IN [data EXCEPT
          !.workspaces[workspaceCwd] =
              [ws EXCEPT !.activeBySessionKey[sessionKey] = sessionRef,
                         !.historyBySessionKey[sessionKey] = <<sessionRef>>],
          !.updatedAt = savedAt]

\* Mutation: the record is written into every workspace of the index.
persistSetSessionEveryWorkspace(data, workspaceCwd, sessionKey, session, savedAt) ==
    LET sessionRef == toPersistedSessionRef(session, savedAt)
    IN [data EXCEPT
          !.workspaces = [w \in Workspaces |->
              [getOrCreateWorkspaceSessions(data, w) EXCEPT
                  !.activeBySessionKey[sessionKey] = sessionRef,
                  !.historyBySessionKey[sessionKey] = Append(@, sessionRef)]],
          !.updatedAt = savedAt]

\* persistSetSession: the index after the record was replaced and appended
persistSetSession(data, workspaceCwd, sessionKey, session, savedAt) ==
    LET sessionRef == toPersistedSessionRef(session, savedAt)
        ws == getOrCreateWorkspaceSessions(data, workspaceCwd)
    IN [data EXCEPT
          !.workspaces[workspaceCwd] =
              [ws EXCEPT !.activeBySessionKey[sessionKey] = sessionRef,
                         !.historyBySessionKey[sessionKey] = Append(@, sessionRef)],
          !.updatedAt = savedAt]

\* setSession(sessionKey, session); when writePersistedSessionsFile fails the
\* call throws after the map and the index object were updated.
SetSession(k, session, io) ==
    /\ persistenceState.ready => now < MaxTime
    /\ sessionStore' = [sessionStore EXCEPT ![k] = session]
    /\ IF persistenceState.ready
       THEN LET w == persistenceState.workspaceCwd
                data == persistSetSession(persistenceState.data, w, k, session, now)
                wrote == writePersistedSessionsFile(file, data, io)
            IN /\ persistenceState' = [persistenceState EXCEPT !.data = data]
               /\ file' = wrote.file
               /\ lastCall' = wrote.call
               /\ setLog' = [setLog EXCEPT ![w][k] =
                                IF io = Written THEN WasSet(session) ELSE Unknown]
               /\ lastSet' = [lastSet EXCEPT ![k] =
                                IF io = Written THEN WasSet(session) ELSE Unknown]
               /\ now' = now + 1
       ELSE /\ io = Written
            /\ lastSet' = [lastSet EXCEPT ![k] = WasSet(session)]
            /\ lastCall' = Returned
            /\ UNCHANGED <<persistenceState, file, setLog, now>>
    /\ UNCHANGED <<lockVars, accVars, turnVars, clientVars, handlerVars, pureVars>>

\* Mutation: the history list of the key is dropped with the active record.
persistClearSessionDroppingHistory(data, workspaceCwd, sessionKey, t) ==
    [data EXCEPT !.workspaces[workspaceCwd].activeBySessionKey[sessionKey] = NoRef,
                 !.workspaces[workspaceCwd].historyBySessionKey[sessionKey] = <<>>,
                 !.updatedAt = t]

\* persistClearSession: the index after the active record was deleted
persistClearSession(data, workspaceCwd, sessionKey, t) ==
    [data EXCEPT !.workspaces[workspaceCwd].activeBySessionKey[sessionKey] = NoRef,
                 !.updatedAt = t]

\* Mutation: persistClearSession stamps and writes the index whenever the
\* workspace has an entry, whether it held an active record for the key or not.
ClearSessionAlwaysWriting(k, io) ==
    /\ persistenceState.ready => now < MaxTime
    /\ sessionStore' = [sessionStore EXCEPT ![k] = NoSession]
    /\ IF /\ persistenceState.ready
          /\ persistenceState.data.workspaces[persistenceState.workspaceCwd].present
       THEN LET w == persistenceState.workspaceCwd
                data == persistClearSession(persistenceState.data, w, k, now)
                wrote == writePersistedSessionsFile(file, data, io)
            IN /\ persistenceState' = [persistenceState EXCEPT !.data = data]
               /\ file' = wrote.file
               /\ lastCall' = wrote.call
               /\ setLog' = [setLog EXCEPT ![w][k] =
                                IF io = Written THEN ClearedAfter(@) ELSE Unknown]
               /\ lastSet' = [lastSet EXCEPT ![k] =
                                IF io = Written THEN Cleared ELSE Unknown]
               /\ now' = now + 1
       ELSE /\ io = Written
            /\ lastSet' = [lastSet EXCEPT ![k] = Cleared]
            /\ lastCall' = Returned
            /\ UNCHANGED <<persistenceState, file, setLog, now>>
    /\ UNCHANGED <<lockVars, accVars, turnVars, clientVars, handlerVars, pureVars>>

\* clearSession(sessionKey): persists only when an active record was removed
ClearSession(k, io) ==
    /\ persistenceState.ready => now < MaxTime
    /\ sessionStore' = [sessionStore EXCEPT ![k] = NoSession]
    /\ IF /\ persistenceState.ready
          /\ persistenceState.data.workspaces[persistenceState.workspaceCwd].present
          /\ persistenceState.data.workspaces[persistenceState.workspaceCwd]
                .activeBySessionKey[k].has
       THEN LET w == persistenceState.workspaceCwd
                data == persistClearSession(persistenceState.data, w, k, now)
                wrote == writePersistedSessionsFile(file, data, io)
            IN /\ persistenceState' = [persistenceState EXCEPT !.data = data]
               /\ file' = wrote.file
               /\ lastCall' = wrote.call
               /\ setLog' = [setLog EXCEPT ![w][k] =
                                IF io = Written THEN ClearedAfter(@) ELSE Unknown]
               /\ lastSet' = [lastSet EXCEPT ![k] =
                                IF io = Written THEN Cleared ELSE Unknown]
               /\ now' = now + 1
       ELSE /\ io = Written
            /\ lastSet' = [lastSet EXCEPT ![k] = Cleared]
            /\ lastCall' = Returned
            /\ UNCHANGED <<persistenceState, file, setLog, now>>
    /\ UNCHANGED <<lockVars, accVars, turnVars, clientVars, handlerVars, pureVars>>

\* resetSessionStore()
ResetSessionStore ==
    /\ sessionStore' = [k \in Keys |-> NoSession]
    /\ sessionQueue' = [k \in Keys |-> 0]
    /\ persistenceState' = NoPersistence
    /\ lastSet' = [k \in Keys |-> Untouched]
    /\ lastCall' = Returned
    /\ UNCHANGED <<calls, nCalls, file, now, setLog, accVars, turnVars, clientVars, handlerVars, pureVars>>

EmptyStore == [k \in Keys |-> NoSession]
NoFile == [exists |-> FALSE, doc |-> createEmptyPersistedSessionsFile(0), temps |-> 0]
NothingLogged == [w \in Workspaces |-> [k \in Keys |-> Untouched]]
NothingSet == [k \in Keys |-> Untouched]

\* The index files the process may find at start: none, an empty index, an
\* index written by another format version.
InitialFiles ==
    { NoFile,
      [NoFile EXCEPT !.exists = TRUE],
      [NoFile EXCEPT !.exists = TRUE, !.doc.version = 2] }

ExistingEmptyFile == [NoFile EXCEPT !.exists = TRUE]

WriteNext ==
    \/ \E w \in Workspaces : InitializeSessionStore(w)
    \/ \E s \in Sessions, io \in WriteOutcomes : SetSession("p2p:c1", s, io)
    \/ \E io \in WriteOutcomes : ClearSession("p2p:c1", io)

StoreNext ==
    \/ \E w \in Workspaces : InitializeSessionStore(w)
    \/ \E k \in Keys, s \in Sessions, io \in StoreWriteOutcomes : SetSession(k, s, io)
    \/ \E k \in Keys, io \in StoreWriteOutcomes : ClearSession(k, io)
    \/ ResetSessionStore

(***************************************************************************)
(* Session store, variant whose persisted records are keyed by thread id    *)
(* and carry their session key (second store of bot-handler.ts)             *)
(***************************************************************************)
ThreadIds == { s.threadId : s \in Sessions }

NoThreadRef ==
    [has |-> FALSE, sessionKey |-> "", threadId |-> <<>>, mode |-> "default",
     model |-> <<>>, title |-> NoTitle, savedAt |-> 0]

\* Mutation: the record does not carry the session key.
toPersistedSessionRefWithoutKey(sessionKey, session, savedAt) ==
    [has |-> TRUE, sessionKey |-> "", threadId |-> session.threadId,
     mode |-> session.mode, model |-> session.model,
     title |-> normalizeOptionalTitle(session.title), savedAt |-> savedAt]

toPersistedSessionRefByThread(sessionKey, session, savedAt) ==
    [has |-> TRUE, sessionKey |-> sessionKey, threadId |-> session.threadId,
     mode |-> session.mode, model |-> session.model,
     title |-> normalizeOptionalTitle(session.title), savedAt |-> savedAt]

NoThreadWorkspaceSessions ==
    [present |-> FALSE,
     activeBySessionKey |-> [t \in ThreadIds |-> NoThreadRef],
     historyBySessionKey |-> [t \in ThreadIds |-> <<>>]]

createEmptyThreadSessionsFile(t) ==
    [version |-> SESSION_FILE_VERSION, updatedAt |-> t,
     workspaces |-> [w \in Workspaces |-> NoThreadWorkspaceSessions]]

getOrCreateThreadWorkspaceSessions(data, workspaceCwd) ==
    IF data.workspaces[workspaceCwd].present
    THEN data.workspaces[workspaceCwd]
    ELSE [NoThreadWorkspaceSessions EXCEPT !.present = TRUE]

\* Mutation: no record is deleted.
removeActiveSessionBySessionKeyNone(activeBySessionKey, sessionKey) ==
    activeBySessionKey

\* removeActiveSessionBySessionKey: the map without the records of sessionKey
removeActiveSessionBySessionKey(activeBySessionKey, sessionKey) ==
    [t \in ThreadIds |->
        IF activeBySessionKey[t].has /\ activeBySessionKey[t].sessionKey = sessionKey
        THEN NoThreadRef ELSE activeBySessionKey[t]]

\* the boolean removeActiveSessionBySessionKey returns
DeletedActiveSession(activeBySessionKey, sessionKey) ==
    removeActiveSessionBySessionKey(activeBySessionKey, sessionKey) # activeBySessionKey

\* parsePersistedSessionRef with its fallback session key
parsePersistedSessionRefByThread(ref, fallbackSessionKey) ==
    [ref EXCEPT !.sessionKey = IF ref.sessionKey # "" THEN ref.sessionKey
                               ELSE fallbackSessionKey,
                !.title = normalizeOptionalTitle(ref.title)]

ValidThreadSessionsFile(doc) ==
    /\ IsSessionFileVersion(doc.version)
    /\ \A w \in Workspaces : doc.workspaces[w].present =>
          \A t \in ThreadIds :
             /\ doc.workspaces[w].activeBySessionKey[t].has =>
                   ValidSessionRef(doc.workspaces[w].activeBySessionKey[t])
             /\ \A i \in 1..Len(doc.workspaces[w].historyBySessionKey[t]) :
                   ValidSessionRef(doc.workspaces[w].historyBySessionKey[t][i])

\* parsePersistedSessionsFile / parseWorkspaceSessions: every record is stored
\* again under its own threadId (the entry key of a record written by the
\* store)
parseThreadSessionsFile(doc) ==
    [version |-> SESSION_FILE_VERSION, updatedAt |-> doc.updatedAt,
     workspaces |-> [w \in Workspaces |->
        [present |-> doc.workspaces[w].present,
         activeBySessionKey |-> [t \in ThreadIds |->
            IF doc.workspaces[w].activeBySessionKey[t].has
            THEN parsePersistedSessionRefByThread(
                     doc.workspaces[w].activeBySessionKey[t], t)
            ELSE NoThreadRef],
         historyBySessionKey |-> [t \in ThreadIds |->
            [i \in 1..Len(doc.workspaces[w].historyBySessionKey[t]) |->
                parsePersistedSessionRefByThread(
                    doc.workspaces[w].historyBySessionKey[t][i], t)]]]]]

NoThreadPersistence ==
    [ready |-> FALSE, workspaceCwd |-> "", data |-> createEmptyThreadSessionsFile(0)]

NoThreadFile == [exists |-> FALSE, doc |-> createEmptyThreadSessionsFile(0), temps |-> 0]

\* The index files the process may find at start: none, an empty index.
ThreadInitialFiles == { NoThreadFile, [NoThreadFile EXCEPT !.exists = TRUE] }

\* initializeSessionStore: every active record is hydrated under the session
\* key it carries
InitializeThreadStore(w) ==
    LET ensured == IF file.exists THEN file
                   ELSE [file EXCEPT !.exists = TRUE,
                                     !.doc = createEmptyThreadSessionsFile(now)]
        persisted == parseThreadSessionsFile(ensured.doc)
        active == persisted.workspaces[w].activeBySessionKey
        RefsOf(k) == { t \in ThreadIds : active[t].has /\ active[t].sessionKey = k }
    IN
    /\ file' = ensured
    /\ now' = IF file.exists THEN now ELSE now + 1
    /\ lastCall' = [thrown |-> IF ValidThreadSessionsFile(ensured.doc) THEN NoError
                               ELSE ThreadIdError,
                    cleanup |-> "none"]
    /\ IF ValidThreadSessionsFile(ensured.doc)
       THEN /\ sessionStore' = [k \in Keys |->
                   IF persisted.workspaces[w].present /\ RefsOf(k) # {}
                   THEN hydrateSession(active[CHOOSE t \in RefsOf(k) : TRUE], w)
                   ELSE NoSession]
            /\ sessionQueue' = [k \in Keys |-> 0]
            /\ persistenceState' = [ready |-> TRUE, workspaceCwd |-> w, data |-> persisted]
            /\ lastSet' = [k \in Keys |-> Untouched]
       ELSE UNCHANGED <<sessionStore, sessionQueue, persistenceState, lastSet>>
    /\ UNCHANGED <<calls, nCalls, setLog, accVars, turnVars, clientVars, handlerVars, pureVars>>

\* persistSetSession: the records of the session key are removed, the new
\* record is stored and appended under the thread id of the session
persistSetSessionByThread(data, workspaceCwd, sessionKey, session, savedAt) ==
    LET sessionRef == toPersistedSessionRefByThread(sessionKey, session, savedAt)
        ws == getOrCreateThreadWorkspaceSessions(data, workspaceCwd)
        removed == removeActiveSessionBySessionKey(ws.activeBySessionKey, sessionKey)
    IN [data EXCEPT
          !.workspaces[workspaceCwd] =
              [ws EXCEPT
                  !.activeBySessionKey = [removed EXCEPT ![session.threadId] = sessionRef],
                  !.historyBySessionKey[session.threadId] = Append(@, sessionRef)],
          !.updatedAt = savedAt]

\* setSession(sessionKey, session)
SetSessionByThread(k, session, io) ==
    /\ persistenceState.ready => now < MaxTime
    /\ sessionStore' = [sessionStore EXCEPT ![k] = session]
    /\ IF persistenceState.ready
       THEN LET w == persistenceState.workspaceCwd
                data == persistSetSessionByThread(persistenceState.data, w, k, session, now)
                wrote == writePersistedSessionsFile(file, data, io)
            IN /\ persistenceState' = [persistenceState EXCEPT !.data = data]
               /\ file' = wrote.file
               /\ lastCall' = wrote.call
               /\ setLog' = [setLog EXCEPT ![w][k] =
                                IF io = Written THEN WasSet(session) ELSE Unknown]
               /\ lastSet' = [lastSet EXCEPT ![k] =
                                IF io = Written THEN WasSet(session) ELSE Unknown]
               /\ now' = now + 1
       ELSE /\ io = Written
            /\ lastSet' = [lastSet EXCEPT ![k] = WasSet(session)]
            /\ lastCall' = Returned
            /\ UNCHANGED <<persistenceState, file, setLog, now>>
    /\ UNCHANGED <<lockVars, accVars, turnVars, clientVars, handlerVars, pureVars>>

\* persistClearSession: the index after the records of the key were deleted
persistClearSessionByThread(data, workspaceCwd, sessionKey, t) ==
    [data EXCEPT
        !.workspaces[workspaceCwd].activeBySessionKey =
            removeActiveSessionBySessionKey(@, sessionKey),
        !.updatedAt = t]

\* clearSession(sessionKey): persists only when a record was deleted
ClearSessionByThread(k, io) ==
    /\ persistenceState.ready => now < MaxTime
    /\ sessionStore' = [sessionStore EXCEPT ![k] = NoSession]
    /\ IF /\ persistenceState.ready
          /\ persistenceState.data.workspaces[persistenceState.workspaceCwd].present
          /\ DeletedActiveSession(
                persistenceState.data.workspaces[persistenceState.workspaceCwd]
                    .activeBySessionKey, k)
       THEN LET w == persistenceState.workspaceCwd
                data == persistClearSessionByThread(persistenceState.data, w, k, now)
                wrote == writePersistedSessionsFile(file, data, io)
            IN /\ persistenceState' = [persistenceState EXCEPT !.data = data]
               /\ file' = wrote.file
               /\ lastCall' = wrote.call
               /\ setLog' = [setLog EXCEPT ![w][k] =
                                IF io = Written THEN ClearedAfter(@) ELSE Unknown]
               /\ lastSet' = [lastSet EXCEPT ![k] =
                                IF io = Written THEN Cleared ELSE Unknown]
               /\ now' = now + 1
       ELSE /\ io = Written
            /\ lastSet' = [lastSet EXCEPT ![k] = Cleared]
            /\ lastCall' = Returned
            /\ UNCHANGED <<persistenceState, file, setLog, now>>
    /\ UNCHANGED <<lockVars, accVars, turnVars, clientVars, handlerVars, pureVars>>

\* resetSessionStore()
ResetThreadStore ==
    /\ sessionStore' = [k \in Keys |-> NoSession]
    /\ sessionQueue' = [k \in Keys |-> 0]
    /\ persistenceState' = NoThreadPersistence
    /\ lastSet' = [k \in Keys |-> Untouched]
    /\ lastCall' = Returned
    /\ UNCHANGED <<calls, nCalls, file, now, setLog, accVars, turnVars, clientVars, handlerVars, pureVars>>

ThreadStoreNext ==
    \/ \E w \in Workspaces : InitializeThreadStore(w)
    \/ \E k \in Keys, s \in Sessions, io \in StoreWriteOutcomes :
          SetSessionByThread(k, s, io)
    \/ \E k \in Keys, io \in StoreWriteOutcomes : ClearSessionByThread(k, io)
    \/ ResetThreadStore

(***************************************************************************)
(* Turn orchestrator (codex/app-server.ts) over the process transport       *)
(* (codex/app-server-client.ts) and the thread lifecycle (codex/thread.ts)  *)
(***************************************************************************)
Outcome(kind, text) == [kind |-> kind, text |-> text]
Pending == Outcome("pending", "")

\* buildExitMessage
ExitError == Outcome("exit", "Codex app-server exited")
WriteError == Outcome("write", "write EPIPE")
\* formatRpcError
RpcError(message) == Outcome("rpc", "Codex RPC error (-32000): " \o message)
TimeoutError(ms) ==
    Outcome("timeout", "Codex request timed out after " \o ToString(ms) \o "ms")
DeferredRejection == Outcome("deferred", "Codex execution timed out")

\* input.timeoutMs: undefined, zero, positive
TimeoutInputs ==
    { [defined |-> FALSE, ms |-> 0], [defined |-> TRUE, ms |-> 0],
      [defined |-> TRUE, ms |-> 50] }

\* input.session against input.cwd: no session, one recorded for the requested
\* cwd, one recorded for another cwd
SessionInputs == {"null", "sameCwd", "otherCwd"}

\* What the child can answer to a request, by method.
ResponseKinds(method) ==
    CASE method = "initialize" -> {"ok", "rpcError"}
      [] method = "collaborationMode/list" -> {"ok", "okOtherModes", "invalid", "rpcError"}
      [] method = "thread/resume" -> {"ok", "okOtherCwd", "invalid", "notFound", "rpcError"}
      [] method = "thread/start" -> {"ok", "invalid", "rpcError"}
      [] method = "turn/start" -> {"ok", "rpcError"}
      [] OTHER -> {}

\* handleStdoutLine on a response line: the promise of the pending request
ResponseOutcome(kind) ==
    CASE kind = "rpcError" -> RpcError("internal error")
      [] kind = "notFound" -> RpcError("thread not found")
      [] OTHER -> Outcome("ok", kind)

\* isThreadMissingError
isThreadMissingErrorAny(err) == TRUE

isThreadMissingError(err) ==
    err.kind = "rpc" /\ err.text = RpcError("thread not found").text

\* typeof timeoutMs === 'number' && timeoutMs > 0
TimeoutConfigured(timeoutMs) == timeoutMs.defined /\ timeoutMs.ms > 0

\* Mutation: a later settlement replaces the outcome already taken.
RaceSettleLast(current, incoming) ==
    incoming

\* Promise.race / return run(): the first settlement is the outcome
RaceSettle(current, incoming) ==
    IF current.kind = "pending" THEN incoming ELSE current

\* CodexAppServerClient.dispose(): close the line reader, signal the child if
\* it was not signalled yet (kill() on an exited child sends nothing)
Dispose(t) ==
    [t EXCEPT !.readerClosed = TRUE,
              !.disposeCalls = @ + 1,
              !.killed = t.killed \/ ~t.exited,
              !.killSignals = IF ~t.killed /\ ~t.exited THEN @ + 1 ELSE @]

\* Mutation: no finally block around the operation.
DisposeInFinallyMissing(t) ==
    t

\* finally { client.dispose() }
DisposeInFinally(t) ==
    Dispose(t)

\* Mutation: the handler resolves on every settling notification.
ShouldResolveTurnDoneAlways(acc, resolved) ==
    acc.turnCompleted

\* accumulator.turnCompleted && !turnDoneResolved
ShouldResolveTurnDone(acc, resolved) ==
    acc.turnCompleted /\ ~resolved

\* Mutation: the message is tested for emptiness without being trimmed.
IsBlankTextNoTrim(text) == text = ""

\* message.trim().length === 0, for the texts of the model
IsBlankText(text) == text \in {"", " "}

NewTurn(op, timeoutMs, session) ==
    [op |-> op, timeoutMs |-> timeoutMs, session |-> session,
     exited |-> FALSE, killed |-> FALSE, killSignals |-> 0,
     readerClosed |-> FALSE, disposeCalls |-> 0,
     nextId |-> 1, pending |-> {}, reqId |-> 0, reqPromise |-> Pending,
     pc |-> "issue", method |-> "initialize", modes |-> "none",
     sent |-> <<>>, requested |-> <<>>, resumed |-> Pending,
     runOutcome |-> Pending,
     turnDone |-> "pending", turnDoneResolved |-> FALSE, turnDoneSettles |-> 0,
     unhandledRejection |-> FALSE,
     timer |-> IF TimeoutConfigured(timeoutMs) THEN "armed" ELSE "none",
     result |-> Pending, outerPc |-> "running", outcome |-> Pending,
     notifs |-> 0]

\* The async run function settles; the race (or the plain return) takes the
\* outcome if nothing settled before.
RunEnds(t, outcome) ==
    [t EXCEPT !.pc = "ended", !.runOutcome = outcome,
              !.result = RaceSettle(t.result, outcome)]

\* client.request(), first part: throw when the child has exited, else
\* allocate the id, register the pending entry and write the line.
IssueRequest ==
    /\ turn.pc = "issue"
    /\ IF turn.exited
       THEN turn' = RunEnds([turn EXCEPT !.requested = Append(@, turn.method)],
                            ExitError)
       ELSE turn' = [turn EXCEPT !.pc = "write", !.reqId = turn.nextId,
                                 !.requested = Append(@, turn.method),
                                 !.nextId = @ + 1,
                                 !.pending = @ \cup {turn.nextId},
                                 !.reqPromise = Pending,
                                 !.sent = Append(@, turn.method)]
    /\ UNCHANGED <<lockVars, storeVars, accVars, clientVars, handlerVars, pureVars>>

\* The callback of child.stdin.write: an error (possible once the child is
\* gone) removes the pending entry and rejects the request.
WriteCallback(ok) ==
    /\ turn.pc = "write"
    /\ ok \/ turn.exited
    /\ IF ok
       THEN turn' = [turn EXCEPT !.pc = "wait"]
       ELSE turn' = RunEnds([turn EXCEPT !.pending = @ \ {turn.reqId}], WriteError)
    /\ UNCHANGED <<lockVars, storeVars, accVars, clientVars, handlerVars, pureVars>>

\* handleStdoutLine on a response line whose id is pending
HandleResponse(kind) ==
    /\ ~turn.readerClosed
    /\ turn.reqId \in turn.pending
    /\ kind \in ResponseKinds(turn.method)
    /\ turn' = [turn EXCEPT !.pending = @ \ {turn.reqId},
                            !.reqPromise = ResponseOutcome(kind)]
    /\ UNCHANGED <<lockVars, storeVars, accVars, clientVars, handlerVars, pureVars>>

\* openThread, its first request: thread/start without a session or with a
\* session of another cwd, else thread/resume.
openThreadAlwaysResume(session) ==
    IF session = "null" THEN "thread/start" ELSE "thread/resume"

openThread(session) ==
    IF session = "null" THEN "thread/start"
    ELSE IF session # "sameCwd" THEN "thread/start"
    ELSE "thread/resume"

\* longest list of collaboration mode masks drawn
MaxMasks == 2
\* the names of the masks drawn, and String.prototype.toLowerCase on them
MaskNames == {"Plan", "plan", "Default"}
toLowerCase(name) ==
    CASE name = "Plan" -> "plan"
      [] name = "Default" -> "default"
      [] OTHER -> name

\* CollaborationModeMask as isCollaborationModeMask admits it; the model of
\* the mask is never read
CollaborationModeMask(name, mode, reasoning_effort, developer_instructions) ==
    [name |-> name, mode |-> mode, model |-> "mask-model",
     reasoning_effort |-> reasoning_effort,
     developer_instructions |-> developer_instructions]
CollaborationModeMasks ==
    {CollaborationModeMask(name, mode, effort, instructions) :
        name \in MaskNames, mode \in {"null", "default", "plan"},
        effort \in {"null", "high"}, instructions \in {"null", "plan first"}}
MaskLists == UNION {[1..n -> CollaborationModeMasks] : n \in 0..MaxMasks}

CollaborationModePayload(mode, model, reasoning_effort, developer_instructions) ==
    [mode |-> mode,
     settings |-> [model |-> model, reasoning_effort |-> reasoning_effort,
                   developer_instructions |-> developer_instructions]]
NoPayload == CollaborationModePayload("null", "null", "null", "null")
\* what selectCollaborationModePayload returned, or the message of what it threw
Selected(payload) == [ok |-> TRUE, error |-> <<>>, payload |-> payload]
SelectFailed(error) == [ok |-> FALSE, error |-> error, payload |-> NoPayload]

\* selectCollaborationModePayload: the payload built from the first mask of
\* the requested mode or name, or the error when the masks hold none for it.
selectCollaborationModePayloadAny(masks, mode, model) ==
    Selected(CollaborationModePayload(mode, model, "null", "null"))

selectCollaborationModePayloadLast(masks, mode, model) ==
    LET found == {i \in DOMAIN masks :
                    masks[i].mode = mode \/ toLowerCase(masks[i].name) = mode}
    IN IF found = {}
       THEN SelectFailed(<<"Collaboration mode \"", mode, "\" is unavailable">>)
       ELSE LET selected == masks[CHOOSE i \in found : \A j \in found : j <= i]
            IN Selected(CollaborationModePayload(mode, model, selected.reasoning_effort,
                                                 selected.developer_instructions))

selectCollaborationModePayload(masks, mode, model) ==
    LET found == {i \in DOMAIN masks :
                    masks[i].mode = mode \/ toLowerCase(masks[i].name) = mode}
    IN IF found = {}
       THEN SelectFailed(<<"Collaboration mode \"", mode, "\" is unavailable">>)
       ELSE LET selected == masks[CHOOSE i \in found : \A j \in found : i <= j]
            IN Selected(CollaborationModePayload(mode, model, selected.reasoning_effort,
                                                 selected.developer_instructions))

\* The masks a collaborationMode/list response of the turn carries, and the
\* mode the turn is run in.
InputMode == "plan"
ListedMasks(text) ==
    IF text = "okOtherModes"
    THEN <<CollaborationModeMask("Default", "default", "null", "null")>>
    ELSE <<CollaborationModeMask("Default", "default", "null", "null"),
           CollaborationModeMask("Plan", "plan", "high", "plan first")>>

\* The step of the run function that follows a settled request.
AfterResponse(t0) ==
    LET r == t0.reqPromise
        t == IF t0.method = "thread/resume" THEN [t0 EXCEPT !.resumed = r] ELSE t0
        next(method) == [t EXCEPT !.pc = "issue", !.method = method]
        \* selectCollaborationModePayload, then turn/start
        opened == IF ~selectCollaborationModePayload(ListedMasks(t.modes), InputMode,
                                                         "opened-model").ok
                  THEN RunEnds(t, Outcome("modeUnavailable",
                                          "Collaboration mode is unavailable"))
                  ELSE next("turn/start")
    IN
    CASE t.method = "thread/resume" /\ r.kind # "ok" ->
            IF isThreadMissingError(r) THEN next("thread/start") ELSE RunEnds(t, r)
      [] t.method # "thread/resume" /\ r.kind # "ok" -> RunEnds(t, r)
      [] r.kind = "ok" /\ r.text = "invalid" ->
            RunEnds(t, Outcome("invalid", "Invalid response from Codex"))
      [] r.kind = "ok" /\ r.text # "invalid" /\ t.method = "initialize" ->
            IF t.op = "createThread" THEN next("thread/start")
            ELSE next("collaborationMode/list")
      [] r.kind = "ok" /\ r.text # "invalid" /\ t.method = "collaborationMode/list" ->
            [next(openThread(t.session)) EXCEPT !.modes = r.text]
      [] r.kind = "ok" /\ r.text # "invalid" /\ t.method = "thread/resume" ->
            IF r.text = "okOtherCwd" THEN next("thread/start") ELSE opened
      [] r.kind = "ok" /\ r.text # "invalid" /\ t.method = "thread/start" ->
            IF t.op = "createThread" THEN RunEnds(t, Outcome("ok", "session"))
            ELSE opened
      [] r.kind = "ok" /\ r.text # "invalid" /\ t.method = "turn/start" ->
            [t EXCEPT !.pc = "awaitTurn"]

ContinueAfterResponse ==
    /\ turn.pc = "wait"
    /\ turn.reqPromise.kind # "pending"
    /\ turn' = AfterResponse(turn)
    /\ UNCHANGED <<lockVars, storeVars, accVars, clientVars, handlerVars, pureVars>>

\* await turnDone.promise and the checks after it
AfterTurnDone(t, acc) ==
    IF t.turnDone = "rejected" THEN RunEnds(t, DeferredRejection)
    ELSE IF acc.turnError \notin {Null, ""} THEN RunEnds(t, Outcome("turnError", acc.turnError))
    ELSE IF resolveTurnMessage(acc) = Null \/ IsBlankText(resolveTurnMessage(acc))
    THEN RunEnds(t, Outcome("noMessage", "Codex did not return a message"))
    ELSE RunEnds(t, Outcome("ok", resolveTurnMessage(acc)))

AwaitTurnDone ==
    /\ turn.pc = "awaitTurn"
    /\ turn.turnDone # "pending"
    /\ turn' = AfterTurnDone(turn, accumulator)
    /\ UNCHANGED <<lockVars, storeVars, accVars, clientVars, handlerVars, pureVars>>

\* The notification handler registered by runCodexTurn, called by
\* handleStdoutLine for a notification line; a throw of applyTurnNotification
\* leaves the handler before the deferred is looked at.
HandleNotification(n) ==
    /\ turn.op = "runTurn"
    /\ ~turn.readerClosed
    /\ turn.notifs < MaxNotifs
    /\ LET applied == applyTurnNotification(accumulator, n) IN
       /\ accumulator' = applied.acc
       /\ seen' = Observe(seen, accumulator, n, turn.turnDoneResolved)
       /\ turn' = IF ~applied.threw
                     /\ ShouldResolveTurnDone(applied.acc, turn.turnDoneResolved)
                  THEN [turn EXCEPT !.turnDoneResolved = TRUE,
                                    !.turnDone = "fulfilled",
                                    !.turnDoneSettles = @ + 1,
                                    !.notifs = @ + 1]
                  ELSE [turn EXCEPT !.notifs = @ + 1]
    /\ UNCHANGED <<lockVars, storeVars, clientVars, handlerVars, pureVars>>

\* child 'exit' event: every pending request is rejected with the exit error
ChildExit ==
    /\ ~turn.exited
    /\ turn' = [turn EXCEPT !.exited = TRUE,
                            !.pending = {},
                            !.reqPromise = IF turn.reqId \in turn.pending
                                           THEN ExitError ELSE @]
    /\ UNCHANGED <<lockVars, storeVars, accVars, clientVars, handlerVars, pureVars>>

\* onTimeout of the two operations. turnDone.promise has a reaction only
\* while the run function is suspended at `await turnDone.promise`; rejected
\* without one, it is reported by the runtime as an unhandled rejection.
OnTimeout(t) ==
    IF t.op = "runTurn" /\ ~t.turnDoneResolved
    THEN Dispose([t EXCEPT !.turnDoneResolved = TRUE, !.turnDone = "rejected",
                           !.turnDoneSettles = @ + 1,
                           !.unhandledRejection = (t.pc # "awaitTurn")])
    ELSE Dispose(t)

\* withTimeout: the timer fires while run() is pending; onTimeout runs, then
\* the timeout promise is rejected and wins the race.
TimerFires ==
    /\ turn.timer = "armed"
    /\ turn.runOutcome.kind = "pending"
    /\ turn' = [OnTimeout(turn) EXCEPT
                   !.timer = "fired",
                   !.result = RaceSettle(turn.result, TimeoutError(turn.timeoutMs.ms))]
    /\ UNCHANGED <<lockVars, storeVars, accVars, clientVars, handlerVars, pureVars>>

\* The finally blocks of withTimeout (clearTimeout) and of the operation
\* (client.dispose()), after which the call settles for its caller.
OperationFinally ==
    /\ turn.outerPc = "running"
    /\ turn.result.kind # "pending"
    /\ turn' = [DisposeInFinally(turn) EXCEPT
                   !.timer = IF turn.timer = "armed" THEN "cleared" ELSE turn.timer,
                   !.outerPc = "settled",
                   !.outcome = turn.result]
    /\ UNCHANGED <<lockVars, storeVars, accVars, clientVars, handlerVars, pureVars>>

\* Notification lines written by the child during a call
TurnNotifications ==
    { n \in Notifications :
        \/ n.method = "error"
        \/ n.method = "item/completed" /\ n.hasInner /\ n.type = "agentMessage"
              /\ n.text \in {"m1", " ", ""}
        \/ n.method = "codex/event/task_complete" /\ n.hasInner /\ n.text = "m2"
        \/ n.method = "turn/completed"
              /\ (n.hasInner => n.text # "") }

\* The calls of the model: createCodexThread (no session input) and
\* runCodexTurn with every timeout and session input.
NewTurns ==
    { NewTurn("createThread", timeoutMs, "null") : timeoutMs \in TimeoutInputs }
    \cup { NewTurn("runTurn", timeoutMs, session) :
              timeoutMs \in TimeoutInputs, session \in SessionInputs }

IdleTurn == NewTurn("runTurn", [defined |-> FALSE, ms |-> 0], "null")

TurnNext ==
    \/ IssueRequest
    \/ \E ok \in BOOLEAN : WriteCallback(ok)
    \/ \E kind \in {"ok", "okOtherModes", "okOtherCwd", "invalid", "notFound", "rpcError"} :
          HandleResponse(kind)
    \/ ContinueAfterResponse
    \/ AwaitTurnDone
    \/ \E n \in TurnNotifications : HandleNotification(n)
    \/ ChildExit
    \/ TimerFires
    \/ OperationFinally

(***************************************************************************)
(* The JSON-RPC client of the Codex child (CodexAppServerClient) and the   *)
(* line codec                                                              *)
(***************************************************************************)
\* A method name is <<head, tail>>: the name is head followed by tail.
MethodName(head, tail) == <<head, tail>>
NoName == MethodName("", "")

\* String.prototype.endsWith on such a name, for the suffixes the code tests
EndsWith(name, suffix) ==
    CASE suffix = "/requestApproval" -> name[2] = "/requestApproval"
      [] suffix = "Approval" -> name[2] \in {"Approval", "/requestApproval"}
      [] OTHER -> FALSE

MethodNames ==
    { MethodName("item/commandExecution", "/requestApproval"),
      MethodName("item/other", "/requestApproval"),
      MethodName("custom", "Approval"),
      MethodName("item/tool/call", ""),
      MethodName("turn/completed", "") }

\* The fields of a JSON line the codec looks at.
\*   json   : "invalid" (JSON.parse throws), "scalar" (not an object), "object"
\*   method : absent, a string, or a value of another type
\*   id     : absent, a number, a string, or a value of another type
\*   error  : absent, an object with a numeric code and a string message, or
\*            any other value
MethodField(kind, name) == [kind |-> kind, name |-> name]
IdField(kind, value) == [kind |-> kind, value |-> value]
ErrorField(kind, code, message) == [kind |-> kind, code |-> code, message |-> message]
NoMethodField == MethodField("absent", NoName)
NoIdField == IdField("absent", 0)
NoErrorField == ErrorField("absent", 0, "")

RpcLine(json, method, id, hasResult, error) ==
    [json |-> json, method |-> method, id |-> id, hasResult |-> hasResult,
     error |-> error]

NoLine == RpcLine("none", NoMethodField, NoIdField, FALSE, NoErrorField)

ErrorFields ==
    {NoErrorField, ErrorField("object", -32000, "boom"), ErrorField("other", 0, "")}

\* The lines of the child: what is not an object; requests and notifications
\* of the server, two of them with a result or an error next to the method;
\* lines without a method under every numeric id up to one past maxId (with
\* every mix of result and error under id 1), under another id and without
\* one; lines whose method is not a string.
RpcLines(maxId) ==
    { RpcLine("invalid", NoMethodField, NoIdField, FALSE, NoErrorField),
      RpcLine("scalar", NoMethodField, NoIdField, FALSE, NoErrorField) }
    \cup { RpcLine("object", MethodField("string", name), id, FALSE, NoErrorField) :
              name \in MethodNames, id \in {NoIdField, IdField("number", 1)} }
    \cup { RpcLine("object", MethodField("string", MethodName("custom", "Approval")),
                   id, FALSE, NoErrorField) :
              id \in {IdField("string", 1), IdField("other", 0)} }
    \cup { RpcLine("object", MethodField("string", MethodName("item/tool/call", "")),
                   IdField("number", 1), TRUE, error) :
              error \in {NoErrorField, ErrorField("object", -32000, "boom")} }
    \cup { RpcLine("object", NoMethodField, IdField("number", 1), hasResult, error) :
              hasResult \in BOOLEAN, error \in ErrorFields }
    \cup { RpcLine("object", NoMethodField, IdField("number", n), hasResult,
                   IF hasResult THEN NoErrorField
                   ELSE ErrorField("object", -32000, "boom")) :
              n \in 2..(maxId + 1), hasResult \in BOOLEAN }
    \cup { RpcLine("object", NoMethodField, id, hasResult,
                   IF hasResult THEN NoErrorField
                   ELSE ErrorField("object", -32000, "boom")) :
              id \in {NoIdField, IdField("string", 1), IdField("other", 0)},
              hasResult \in BOOLEAN }
    \cup { RpcLine("object", MethodField("other", NoName), IdField("number", 1),
                   TRUE, error) :
              error \in {NoErrorField, ErrorField("object", -32000, "boom")} }

\* What parseRpcLine returns: null, or an object with the listed fields.
ParsedLine(hasMethod, method, hasId, id, hasResult, hasError, error) ==
    [isNull |-> FALSE, hasMethod |-> hasMethod, method |-> method,
     hasId |-> hasId, id |-> id, hasResult |-> hasResult,
     hasError |-> hasError, error |-> error]

ParsedNull ==
    [isNull |-> TRUE, hasMethod |-> FALSE, method |-> NoName,
     hasId |-> FALSE, id |-> NoIdField, hasResult |-> FALSE,
     hasError |-> FALSE, error |-> NoErrorField]

isRpcRequestId(id) == id.kind \in {"number", "string"}
isRpcErrorObject(error) == error.kind = "object"

\* Mutation: the parsed object is returned as it is once its id is valid.
parseRpcLineWhole(line) ==
    IF line.json # "object" THEN ParsedNull
    ELSE IF line.method.kind = "string"
    THEN ParsedLine(TRUE, line.method.name, isRpcRequestId(line.id), line.id,
                    line.hasResult, line.error.kind # "absent", line.error)
    ELSE IF ~isRpcRequestId(line.id) THEN ParsedNull
    ELSE ParsedLine(FALSE, NoName, TRUE, line.id, line.hasResult,
                    line.error.kind # "absent", line.error)

\* parseRpcLine
parseRpcLine(line) ==
    IF line.json # "object" THEN ParsedNull
    ELSE IF line.method.kind = "string"
    THEN IF isRpcRequestId(line.id)
         THEN ParsedLine(TRUE, line.method.name, TRUE, line.id, FALSE, FALSE,
                         NoErrorField)
         ELSE ParsedLine(TRUE, line.method.name, FALSE, NoIdField, FALSE, FALSE,
                         NoErrorField)
    ELSE IF ~isRpcRequestId(line.id) THEN ParsedNull
    ELSE IF line.error.kind # "absent" /\ isRpcErrorObject(line.error)
    THEN ParsedLine(FALSE, NoName, TRUE, line.id, FALSE, TRUE, line.error)
    ELSE IF line.hasResult
    THEN ParsedLine(FALSE, NoName, TRUE, line.id, TRUE, FALSE, NoErrorField)
    ELSE ParsedNull

\* isRpcServerRequest, isRpcErrorResponse
isRpcServerRequest(parsed) == parsed.hasMethod /\ parsed.hasId
isRpcErrorResponse(parsed) == parsed.hasError

\* getServerRequestResult: the canned result of a server request, by name
NoServerResult == "<null>"

getServerRequestResultNone(method) == NoServerResult

getServerRequestResult(method) ==
    IF method = MethodName("item/commandExecution", "/requestApproval")
    THEN "accept, acceptSettings.forSession"
    ELSE IF method = MethodName("item/fileChange", "/requestApproval") THEN "accept"
    ELSE IF EndsWith(method, "/requestApproval") THEN "accept"
    ELSE IF method = MethodName("execCommand", "Approval") THEN "allow"
    ELSE IF method = MethodName("applyPatch", "Approval") THEN "allow"
    ELSE IF EndsWith(method, "Approval") THEN "allow"
    ELSE IF method = MethodName("item/tool/requestUserInput", "") THEN "answers"
    ELSE IF method = MethodName("item/tool/call", "") THEN "tool calls unavailable"
    ELSE NoServerResult

\* The state of a promise of the client and the message of its error, as the
\* sequence of the parts it is built from.
Settled(kind, message) == [kind |-> kind, message |-> message]
Unsettled == Settled("pending", <<>>)
Resolved == Settled("ok", <<"result">>)

\* formatRpcError
formatRpcError(error) ==
    <<"Codex RPC error (", ToString(error.code), "): ", error.message>>

\* buildExitMessage(code, signal), with the last line of stderrBuffer
buildExitMessage(code, signal, stderr) ==
    <<"Codex app-server exited (code=", code, ", signal=", signal, ")">>
        \o (IF stderr # "" THEN <<"; stderr: ", stderr>> ELSE <<>>)

ExitCodes == { <<"1", "null">>, <<"null", "SIGTERM">> }

\* Lines written to the stdin of the child.
WrittenLine(kind, id, body) == [kind |-> kind, id |-> id, body |-> body]

\* One request() call that got an id: its response promise, the number of
\* resolve/reject calls made through its pending entry, and the state of the
\* write of its line.
NoRequest == [promise |-> Unsettled, settles |-> 0, write |-> "none"]

\* What the last operation of the client did.
LastOp(op, line, parsed, wrote, forwarded, error) ==
    [op |-> op, line |-> line, parsed |-> parsed, wrote |-> wrote,
     forwarded |-> forwarded, error |-> error]
NothingDone == LastOp("none", NoLine, ParsedNull, <<>>, 0, <<>>)

MaxRequests == 2
RequestIds == 1..MaxRequests

NewClient ==
    [exited |-> FALSE, stderr |-> "",
     nextId |-> 1, pending |-> {}, requests |-> [id \in RequestIds |-> NoRequest],
     last |-> NothingDone]

\* Mutation: request() does not look at exited.
ClientRequestUnchecked ==
    /\ client.nextId <= MaxRequests
    /\ client' = [client EXCEPT
          !.nextId = @ + 1,
          !.pending = @ \cup {client.nextId},
          !.requests[client.nextId] = [NoRequest EXCEPT !.write = "writing"],
          !.last = LastOp("request", NoLine, ParsedNull,
                          <<WrittenLine("request", IdField("number", client.nextId), "m")>>,
                          0, <<>>)]
    /\ UNCHANGED <<lockVars, storeVars, accVars, turnVars, handlerVars, pureVars>>

\* request(method, params): throws when the child has exited, else allocates
\* the id, registers the pending entry and writes the line.
ClientRequest ==
    /\ client.exited \/ client.nextId <= MaxRequests
    /\ IF client.exited
       THEN client' = [client EXCEPT
               !.last = LastOp("request", NoLine, ParsedNull, <<>>, 0,
                               buildExitMessage("null", "null", client.stderr))]
       ELSE client' = [client EXCEPT
               !.nextId = @ + 1,
               !.pending = @ \cup {client.nextId},
               !.requests[client.nextId] = [NoRequest EXCEPT !.write = "writing"],
               !.last = LastOp("request", NoLine, ParsedNull,
                               <<WrittenLine("request", IdField("number", client.nextId), "m")>>,
                               0, <<>>)]
    /\ UNCHANGED <<lockVars, storeVars, accVars, turnVars, handlerVars, pureVars>>

\* The callback of the write of a request line: an error removes the pending
\* entry and rejects the call.
ClientWriteCallback(id, ok) ==
    /\ client.requests[id].write = "writing"
    /\ ok \/ client.exited
    /\ client' = [client EXCEPT
          !.requests[id].write = IF ok THEN "ok" ELSE "failed",
          !.pending = IF ok THEN @ ELSE @ \ {id},
          !.last = LastOp("writeCallback", NoLine, ParsedNull, <<>>, 0, <<>>)]
    /\ UNCHANGED <<lockVars, storeVars, accVars, turnVars, handlerVars, pureVars>>

\* respondToServerRequest and writeRpcPayload: the line written for a server
\* request, none once the child has exited.
respondToServerRequest(c, parsed) ==
    IF c.exited THEN <<>>
    ELSE IF getServerRequestResult(parsed.method) # NoServerResult
    THEN <<WrittenLine("result", parsed.id, getServerRequestResult(parsed.method))>>
    ELSE <<WrittenLine("error", parsed.id, "-32601")>>

\* Mutation: the pending entry stays in the table after its response.
handleResponseKeepingEntry(c, parsed) ==
    IF parsed.id.kind # "number" \/ parsed.id.value \notin c.pending THEN c
    ELSE [c EXCEPT
            !.requests[parsed.id.value].settles = @ + 1,
            !.requests[parsed.id.value].promise =
                IF isRpcErrorResponse(parsed)
                THEN Settled("rpc", formatRpcError(parsed.error))
                ELSE Resolved]

\* handleStdoutLine on a response: the pending entry of its id, if there is
\* one, is deleted and rejected or resolved.
handleResponse(c, parsed) ==
    IF parsed.id.kind # "number" \/ parsed.id.value \notin c.pending THEN c
    ELSE [c EXCEPT
            !.pending = @ \ {parsed.id.value},
            !.requests[parsed.id.value].settles = @ + 1,
            !.requests[parsed.id.value].promise =
                IF isRpcErrorResponse(parsed)
                THEN Settled("rpc", formatRpcError(parsed.error))
                ELSE Resolved]

\* handleStdoutLine(line); writeOk is the outcome of the write of the reply
\* to a server request, whose failure is pushed to stderrBuffer.
HandleStdoutLine(line, writeOk) ==
    /\ LET parsed == parseRpcLine(line)
           reply == respondToServerRequest(client, parsed)
       IN
       IF parsed.isNull
       THEN client' = [client EXCEPT !.last = LastOp("line", line, parsed, <<>>, 0, <<>>)]
       ELSE IF parsed.hasMethod
       THEN IF isRpcServerRequest(parsed)
            THEN client' = [client EXCEPT
                    !.stderr = IF reply # <<>> /\ ~writeOk
                               THEN "failed to respond to server request" ELSE @,
                    !.last = LastOp("line", line, parsed, reply, 0, <<>>)]
            ELSE client' = [client EXCEPT
                    !.last = LastOp("line", line, parsed, <<>>, 1, <<>>)]
       ELSE client' = [handleResponse(client, parsed) EXCEPT
                    !.last = LastOp("line", line, parsed, <<>>, 0, <<>>)]
    /\ UNCHANGED <<lockVars, storeVars, accVars, turnVars, handlerVars, pureVars>>

\* The 'data' handler of the stderr of the child
ClientStderr ==
    /\ ~client.exited
    /\ client' = [client EXCEPT !.stderr = "boom",
                                !.last = LastOp("stderr", NoLine, ParsedNull, <<>>, 0, <<>>)]
    /\ UNCHANGED <<lockVars, storeVars, accVars, turnVars, handlerVars, pureVars>>

\* Mutation: the exit handler rejects the pending requests but keeps the table.
ClientExitKeepingEntries(code, signal) ==
    /\ ~client.exited
    /\ LET message == buildExitMessage(code, signal, client.stderr) IN
       client' = [client EXCEPT
          !.exited = TRUE,
          !.requests = [id \in RequestIds |->
                          IF id \in client.pending
                          THEN [client.requests[id] EXCEPT
                                   !.promise = Settled("exit", message),
                                   !.settles = @ + 1]
                          ELSE client.requests[id]],
          !.last = LastOp("exit", NoLine, ParsedNull, <<>>, 0, message)]
    /\ UNCHANGED <<lockVars, storeVars, accVars, turnVars, handlerVars, pureVars>>

\* The 'exit' handler of the child
ClientExit(code, signal) ==
    /\ ~client.exited
    /\ LET message == buildExitMessage(code, signal, client.stderr) IN
       client' = [client EXCEPT
          !.exited = TRUE,
          !.requests = [id \in RequestIds |->
                          IF id \in client.pending
                          THEN [client.requests[id] EXCEPT
                                   !.promise = Settled("exit", message),
                                   !.settles = @ + 1]
                          ELSE client.requests[id]],
          !.pending = {},
          !.last = LastOp("exit", NoLine, ParsedNull, <<>>, 0, message)]
    /\ UNCHANGED <<lockVars, storeVars, accVars, turnVars, handlerVars, pureVars>>

ClientLines == RpcLines(MaxRequests)

ClientNext ==
    \/ ClientRequest
    \/ \E id \in RequestIds, ok \in BOOLEAN : ClientWriteCallback(id, ok)
    \/ \E line \in ClientLines :
          \E writeOk \in (IF isRpcServerRequest(parseRpcLine(line)) THEN BOOLEAN ELSE {TRUE}) :
             HandleStdoutLine(line, writeOk)
    \/ ClientStderr
    \/ \E e \in ExitCodes : ClientExit(e[1], e[2])

(***************************************************************************)
(* handleIncomingText: one chat message, handled under the lock of its key *)
(***************************************************************************)
Modes == {"default", "plan"}

\* What parseCommand returns; mode is read for the types mode and new only.
ParsedCommand(type, mode) == [type |-> type, mode |-> mode]
ParsedCommands ==
    { ParsedCommand(type, "default") :
         type \in {"invalid", "help", "status", "projects", "reset", "prompt"} }
    \cup { ParsedCommand(type, mode) : type \in {"mode", "new"}, mode \in Modes }

\* What deps.createThread and deps.runTurn settle with: an error, or the
\* thread, model and cwd Codex opened.
CodexOutcome(ok, threadId, model, cwd) ==
    [ok |-> ok, threadId |-> threadId, model |-> model, cwd |-> cwd]
CodexFailure == CodexOutcome(FALSE, <<>>, <<>>, "")
CodexOutcomes ==
    {CodexFailure}
    \cup { CodexOutcome(TRUE, <<"t", "1">>, <<"g">>, "/a"),
           CodexOutcome(TRUE, <<"t", "2">>, <<"g">>, "/b") }

\* The runTurn call that asks for a title: a usable title, a text that is
\* empty after sanitizing, or a failure.
TitleOutcomes == {"generated", "empty", "failed"}
GeneratedTitle == Title(<<"g">>)
FallbackTitle == Title(<<"p">>)

\* normalizeSessionTitle; NoTitle is null
normalizeSessionTitle(title) ==
    IF ~title.has \/ title.chars = <<>> THEN NoTitle
    ELSE IF Len(Trim(title.chars)) = 0 THEN NoTitle
    ELSE Title(Trim(title.chars))

\* generateSessionTitleWithFallback
generateSessionTitleWithFallback(titleOutcome) ==
    IF titleOutcome = "generated" THEN GeneratedTitle ELSE FallbackTitle

\* resolveSessionTitle
resolveSessionTitle(currentSession, titleOutcome) ==
    IF normalizeSessionTitle(currentSession.title).has
    THEN normalizeSessionTitle(currentSession.title)
    ELSE IF ~currentSession.has THEN NoTitle
    ELSE generateSessionTitleWithFallback(titleOutcome)

\* What the run function leaves under the key and what it returns.
Ran(session, reply) == [session |-> session, reply |-> reply]

\* Mutation: the catch block drops the session of the key.
catchCodexErrorClearing(currentSession) ==
    Ran(NoSession, "error")

\* catch (error) { return formatCodexError(error) }
catchCodexError(currentSession) ==
    Ran(currentSession, "error")

\* The function handleIncomingText runs under withSessionLock. setOk is FALSE
\* when deps.setSession or deps.clearSession throws, which the store does
\* after it changed the map.
handleIncomingTextRun(currentSession, parsed, codex, titleOutcome, setOk) ==
    CASE parsed.type = "invalid" -> Ran(currentSession, "invalid")
      [] parsed.type = "help" -> Ran(currentSession, "help")
      [] parsed.type = "status" ->
            Ran(currentSession, IF currentSession.has THEN "status" ELSE "noSession")
      [] parsed.type = "projects" -> Ran(currentSession, "projects")
      [] parsed.type = "reset" ->
            Ran(NoSession, IF setOk THEN "cleared" ELSE "thrown")
      [] parsed.type = "mode" ->
            IF ~currentSession.has THEN Ran(currentSession, "noSession")
            ELSE Ran([currentSession EXCEPT !.mode = parsed.mode],
                     IF setOk THEN "switched" ELSE "thrown")
      [] parsed.type = "new" ->
            IF ~codex.ok THEN catchCodexError(currentSession)
            ELSE Ran(Session(codex.threadId, parsed.mode, codex.model, codex.cwd,
                             NoTitle),
                     IF setOk THEN "created" ELSE "error")
      [] parsed.type = "prompt" ->
            IF ~codex.ok THEN catchCodexError(currentSession)
            ELSE Ran(Session(codex.threadId,
                             IF currentSession.has THEN currentSession.mode
                             ELSE "default",
                             codex.model, codex.cwd,
                             resolveSessionTitle(currentSession, titleOutcome)),
                     IF setOk THEN "message" ELSE "error")

\* The message handled last: its key and command, what createThread or the
\* runTurn of the prompt settled with, what the runTurn asking for a title did
\* ("none" when it was not called), and the reply.
Handled(key, parsed, codex, titleCall, reply) ==
    [key |-> key, parsed |-> parsed, codex |-> codex, titleCall |-> titleCall,
     reply |-> reply]
NothingHandled ==
    Handled("", ParsedCommand("none", "default"), CodexFailure, "none", "")

\* handleIncomingText(input, deps)
HandleIncomingText(k, parsed, codex, titleOutcome, setOk) ==
    LET currentSession == getSession(k)
        ran == handleIncomingTextRun(currentSession, parsed, codex, titleOutcome, setOk)
    IN /\ sessionStore' = [sessionStore EXCEPT ![k] = ran.session]
       /\ handled' = Handled(k, parsed, codex,
                              IF /\ parsed.type = "prompt" /\ codex.ok
                                 /\ currentSession.has
                                 /\ ~normalizeSessionTitle(currentSession.title).has
                              THEN titleOutcome ELSE "none",
                              ran.reply)
       /\ UNCHANGED <<persistenceState, file, now, setLog, lastSet, lastCall>>
       /\ UNCHANGED <<lockVars, accVars, turnVars, clientVars, pureVars>>

\* The inputs the command reads: Codex is called for new and for a prompt,
\* a title is asked for after a prompt, the store is written by reset, mode,
\* new and a prompt.
CodexOutcomesOf(parsed) ==
    IF parsed.type \in {"new", "prompt"} THEN CodexOutcomes ELSE {CodexFailure}
TitleOutcomesOf(parsed) ==
    IF parsed.type = "prompt" THEN TitleOutcomes ELSE {"failed"}
SetOutcomesOf(parsed) ==
    IF parsed.type \in {"reset", "mode", "new", "prompt"} THEN BOOLEAN ELSE {TRUE}

HandlerNext ==
    \E k \in Keys, parsed \in ParsedCommands :
       \E codex \in CodexOutcomesOf(parsed), titleOutcome \in TitleOutcomesOf(parsed),
          setOk \in SetOutcomesOf(parsed) :
             HandleIncomingText(k, parsed, codex, titleOutcome, setOk)

(***************************************************************************)
(* Specifications                                                          *)
(***************************************************************************)
\* withSessionLock calls of the running process
LockInit ==
    /\ calls = NoCalls /\ nCalls = 0 /\ sessionQueue = EmptyQueue
    /\ sessionStore = EmptyStore /\ persistenceState = NoPersistence
    /\ file = NoFile /\ now = 0 /\ setLog = NothingLogged /\ lastSet = NothingSet
    /\ lastCall = NothingCalled
    /\ accumulator = createTurnAccumulator /\ seen = NothingSeen
    /\ turn = IdleTurn
    /\ client = NewClient /\ handled = NothingHandled
    /\ evaluated = NothingEvaluated

SpecLock == LockInit /\ [][LockNext]_vars

\* the session map and its persisted index
StoreInit ==
    /\ calls = NoCalls /\ nCalls = 0 /\ sessionQueue = EmptyQueue
    /\ sessionStore = EmptyStore /\ persistenceState = NoPersistence
    /\ file \in InitialFiles /\ now = 0
    /\ setLog = NothingLogged /\ lastSet = NothingSet /\ lastCall = NothingCalled
    /\ accumulator = createTurnAccumulator /\ seen = NothingSeen
    /\ turn = IdleTurn
    /\ client = NewClient /\ handled = NothingHandled
    /\ evaluated = NothingEvaluated

SpecStore == StoreInit /\ [][StoreNext]_vars

\* setSession/clearSession of one key on an existing index, with every way
\* writePersistedSessionsFile can fail
WriteInit ==
    /\ calls = NoCalls /\ nCalls = 0 /\ sessionQueue = EmptyQueue
    /\ sessionStore = EmptyStore /\ persistenceState = NoPersistence
    /\ file = ExistingEmptyFile /\ now = 0
    /\ setLog = NothingLogged /\ lastSet = NothingSet /\ lastCall = NothingCalled
    /\ accumulator = createTurnAccumulator /\ seen = NothingSeen
    /\ turn = IdleTurn
    /\ client = NewClient /\ handled = NothingHandled
    /\ evaluated = NothingEvaluated

SpecWrite == WriteInit /\ [][WriteNext]_vars

\* the session map and its persisted index, variant keyed by thread id
ThreadStoreInit ==
    /\ calls = NoCalls /\ nCalls = 0 /\ sessionQueue = EmptyQueue
    /\ sessionStore = EmptyStore /\ persistenceState = NoThreadPersistence
    /\ file \in ThreadInitialFiles /\ now = 0
    /\ setLog = NothingLogged /\ lastSet = NothingSet /\ lastCall = NothingCalled
    /\ accumulator = createTurnAccumulator /\ seen = NothingSeen
    /\ turn = IdleTurn
    /\ client = NewClient /\ handled = NothingHandled
    /\ evaluated = NothingEvaluated

SpecThreadStore == ThreadStoreInit /\ [][ThreadStoreNext]_vars

\* applyTurnNotification on one accumulator
AccInit ==
    /\ calls = NoCalls /\ nCalls = 0 /\ sessionQueue = EmptyQueue
    /\ sessionStore = EmptyStore /\ persistenceState = NoPersistence
    /\ file = NoFile /\ now = 0 /\ setLog = NothingLogged /\ lastSet = NothingSet
    /\ lastCall = NothingCalled
    /\ accumulator = createTurnAccumulator /\ seen = NothingSeen
    /\ turn = IdleTurn
    /\ client = NewClient /\ handled = NothingHandled
    /\ evaluated = NothingEvaluated

SpecAcc == AccInit /\ [][AccNext]_vars

\* one createCodexThread / runCodexTurn call and its child process
TurnInit ==
    /\ calls = NoCalls /\ nCalls = 0 /\ sessionQueue = EmptyQueue
    /\ sessionStore = EmptyStore /\ persistenceState = NoPersistence
    /\ file = NoFile /\ now = 0 /\ setLog = NothingLogged /\ lastSet = NothingSet
    /\ lastCall = NothingCalled
    /\ accumulator = createTurnAccumulator /\ seen = NothingSeen
    /\ turn \in NewTurns
    /\ client = NewClient /\ handled = NothingHandled
    /\ evaluated = NothingEvaluated

SpecTurn == TurnInit /\ [][TurnNext]_vars

\* The event loop runs every continuation that is ready and fires every
\* armed timer; the child owes nothing.
FairSpecTurn ==
    /\ TurnInit /\ [][TurnNext]_vars
    /\ WF_vars(IssueRequest)
    /\ WF_vars(\E ok \in BOOLEAN : WriteCallback(ok))
    /\ WF_vars(ContinueAfterResponse)
    /\ WF_vars(AwaitTurnDone)
    /\ WF_vars(TimerFires)
    /\ WF_vars(OperationFinally)

\* one CodexAppServerClient: its requests, the lines of its child, the exit
ClientInit ==
    /\ calls = NoCalls /\ nCalls = 0 /\ sessionQueue = EmptyQueue
    /\ sessionStore = EmptyStore /\ persistenceState = NoPersistence
    /\ file = NoFile /\ now = 0 /\ setLog = NothingLogged /\ lastSet = NothingSet
    /\ lastCall = NothingCalled
    /\ accumulator = createTurnAccumulator /\ seen = NothingSeen
    /\ turn = IdleTurn
    /\ client = NewClient /\ handled = NothingHandled
    /\ evaluated = NothingEvaluated

SpecClient == ClientInit /\ [][ClientNext]_vars

\* the messages of the chats, handled one at a time per key
HandlerInit ==
    /\ calls = NoCalls /\ nCalls = 0 /\ sessionQueue = EmptyQueue
    /\ sessionStore = EmptyStore /\ persistenceState = NoPersistence
    /\ file = NoFile /\ now = 0 /\ setLog = NothingLogged /\ lastSet = NothingSet
    /\ lastCall = NothingCalled
    /\ accumulator = createTurnAccumulator /\ seen = NothingSeen
    /\ turn = IdleTurn
    /\ client = NewClient /\ handled = NothingHandled
    /\ evaluated = NothingEvaluated

SpecHandler == HandlerInit /\ [][HandlerNext]_vars

(***************************************************************************)
(* Session keys (getSessionKey)                                            *)
(***************************************************************************)
\* longest chat id and user id drawn
MaxIdLen == 2
\* the characters of the ids drawn; ":" is the separator getSessionKey writes
IdChars == {"a", ":"}
Ids == UNION {[1..n -> IdChars] : n \in 1..MaxIdLen}
\* chat_type of a message: any string, "p2p" for a direct chat
ChatTypes == {"p2p", "group", "topic_group"}
SessionKeyInput(chatType, chatId, userId) ==
    [chatType |-> chatType, chatId |-> chatId, userId |-> userId]
SessionKeyInputs ==
    {SessionKeyInput(t, c, u) : t \in ChatTypes, c \in Ids, u \in Ids}

\* getSessionKey: the template strings `p2p:${chatId}` and
\* `group:${chatId}:${userId}`, as the sequence of their characters
getSessionKey(input) ==
    IF input.chatType = "p2p"
    THEN <<"p", "2", "p", ":">> \o input.chatId
    ELSE <<"g", "r", "o", "u", "p", ":">> \o input.chatId \o <<":">> \o input.userId

NoEvaluation == [input |-> SessionKeyInput("", <<>>, <<>>), key |-> <<>>]

\* one call of getSessionKey, of the two that are compared; the call before
\* it is remembered
GetSessionKey(input) ==
    /\ evaluated.fn = "getSessionKey" => evaluated.previous = NoEvaluation
    /\ evaluated' = [fn |-> "getSessionKey",
                     last |-> [input |-> input, key |-> getSessionKey(input)],
                     previous |-> IF evaluated.fn = "getSessionKey"
                                  THEN evaluated.last ELSE NoEvaluation]
    /\ UNCHANGED <<lockVars, storeVars, accVars, turnVars, clientVars, handlerVars>>

KeyNext ==
    /\ evaluated.fn = "getSessionKey" => evaluated.previous = NoEvaluation
    /\ \E input \in SessionKeyInputs : GetSessionKey(input)

\* the keys of the messages received
KeyInit ==
    /\ calls = NoCalls /\ nCalls = 0 /\ sessionQueue = EmptyQueue
    /\ sessionStore = EmptyStore /\ persistenceState = NoPersistence
    /\ file = NoFile /\ now = 0 /\ setLog = NothingLogged /\ lastSet = NothingSet
    /\ lastCall = NothingCalled
    /\ accumulator = createTurnAccumulator /\ seen = NothingSeen
    /\ turn = IdleTurn
    /\ client = NewClient /\ handled = NothingHandled
    /\ evaluated = NothingEvaluated

SpecKey == KeyInit /\ [][KeyNext]_vars

(***************************************************************************)
(* Collaboration mode payload (selectCollaborationModePayload)             *)
(***************************************************************************)
\* one call of selectCollaborationModePayload
SelectCollaborationModePayload(masks, mode, model) ==
    /\ evaluated = NothingEvaluated
    /\ evaluated' = [fn |-> "selectCollaborationModePayload",
                     masks |-> masks, mode |-> mode, model |-> model,
                     result |-> selectCollaborationModePayload(masks, mode, model)]
    /\ UNCHANGED <<lockVars, storeVars, accVars, turnVars, clientVars, handlerVars>>

ModeNext ==
    /\ evaluated = NothingEvaluated
    /\ \E masks \in MaskLists, mode \in Modes :
          SelectCollaborationModePayload(masks, mode, "opened-model")

\* the mask lists a collaborationMode/list response can carry
ModeInit ==
    /\ calls = NoCalls /\ nCalls = 0 /\ sessionQueue = EmptyQueue
    /\ sessionStore = EmptyStore /\ persistenceState = NoPersistence
    /\ file = NoFile /\ now = 0 /\ setLog = NothingLogged /\ lastSet = NothingSet
    /\ lastCall = NothingCalled
    /\ accumulator = createTurnAccumulator /\ seen = NothingSeen
    /\ turn = IdleTurn
    /\ client = NewClient /\ handled = NothingHandled
    /\ evaluated = NothingEvaluated

SpecMode == ModeInit /\ [][ModeNext]_vars

(***************************************************************************)
(* withSessionLock while the store is reset or initialized again           *)
(***************************************************************************)
LockResetNext ==
    \/ LockNext
    \/ ResetSessionStore
    \/ \E w \in Workspaces : InitializeSessionStore(w)

\* the calls of withSessionLock, with resetSessionStore and
\* initializeSessionStore called at any moment between their steps
LockResetInit ==
    /\ calls = NoCalls /\ nCalls = 0 /\ sessionQueue = EmptyQueue
    /\ sessionStore = EmptyStore /\ persistenceState = NoPersistence
    /\ file = NoFile /\ now = 0 /\ setLog = NothingLogged /\ lastSet = NothingSet
    /\ lastCall = NothingCalled
    /\ accumulator = createTurnAccumulator /\ seen = NothingSeen
    /\ turn = IdleTurn
    /\ client = NewClient /\ handled = NothingHandled
    /\ evaluated = NothingEvaluated

SpecLockReset == LockResetInit /\ [][LockResetNext]_vars

(***************************************************************************)
(* handleIncomingText calls that overlap: the run function of each call    *)
(* under withSessionLock                                                   *)
(***************************************************************************)
\* What is known of one handleIncomingText call: its command, the session of
\* its key when it was called, the session its run function read, the
\* session of the key when its run function ended, and the reply.
HandledCall(parsed, atCall, currentSession, after, reply) ==
    [parsed |-> parsed, atCall |-> atCall, currentSession |-> currentSession,
     after |-> after, reply |-> reply]
NoHandledCall ==
    HandledCall(ParsedCommand("none", "default"), NoSession, NoSession, NoSession, "")
NoHandledCalls == [c \in CallIds |-> NoHandledCall]

\* number of handleIncomingText calls made
MaxMessages == 2

\* the commands of the overlapping calls
OverlappingCommands ==
    { ParsedCommand("prompt", "default"), ParsedCommand("new", "plan"),
      ParsedCommand("reset", "default"), ParsedCommand("status", "default") }

\* Mutation: the session is the one the map held when handleIncomingText was
\* called, before the lock was taken.
currentSessionBeforeLock(c) == handled[c].atCall

\* const currentSession = deps.getSession(sessionKey), first statement of
\* the run function after parseCommand
currentSessionInRun(c) == getSession(calls[c].key)

\* handleIncomingText: getSessionKey, then deps.withSessionLock(sessionKey, run)
\* up to its first await
HandleIncomingTextCall(k, parsed) ==
    /\ nCalls < MaxCalls /\ nCalls < MaxMessages
    /\ LET c == nCalls + 1 IN
       /\ calls' = [calls EXCEPT ![c] =
                       [NoCall EXCEPT !.st = "queued", !.key = k,
                                      !.prev = sessionQueue[k]]]
       /\ sessionQueue' = [sessionQueue EXCEPT ![k] = c]
       /\ nCalls' = c
       /\ handled' = [handled EXCEPT ![c] =
                         HandledCall(parsed, getSession(k), NoSession, NoSession, "")]
    /\ UNCHANGED <<storeVars, accVars, turnVars, clientVars, pureVars>>

\* The run function starts once `previous` has settled: parseCommand and the
\* read of the session.
HandlerRunStarts(c) ==
    /\ calls[c].st = "queued"
    /\ ThenRun(PreviousState(c)) = "run"
    /\ calls' = [calls EXCEPT ![c].st = "running", ![c].runs = @ + 1]
    /\ handled' = [handled EXCEPT ![c].currentSession = currentSessionInRun(c)]
    /\ UNCHANGED <<nCalls, sessionQueue, storeVars, accVars, turnVars, clientVars,
                   pureVars>>

\* The rest of the run function: the Codex calls settle, the session is
\* stored or cleared, the reply is returned (or the store call throws out of
\* a branch that has no catch).
HandlerRunSettles(c, codex, titleOutcome, setOk) ==
    /\ calls[c].st = "running"
    /\ LET k == calls[c].key
           ran == handleIncomingTextRun(handled[c].currentSession, handled[c].parsed,
                                        codex, titleOutcome, setOk)
           after == IF ran.session = handled[c].currentSession
                    THEN sessionStore[k] ELSE ran.session
       IN /\ sessionStore' = [sessionStore EXCEPT ![k] = after]
          /\ handled' = [handled EXCEPT ![c].after = after, ![c].reply = ran.reply]
          /\ calls' = [calls EXCEPT
                          ![c].st = "ran",
                          ![c].running = IF ran.reply = "thrown" THEN "rejected"
                                         ELSE "fulfilled"]
    /\ UNCHANGED <<nCalls, sessionQueue, persistenceState, file, now, setLog, lastSet,
                   lastCall, accVars, turnVars, clientVars, pureVars>>

HandlerLockNext ==
    \/ \E k \in Keys, parsed \in OverlappingCommands : HandleIncomingTextCall(k, parsed)
    \/ \E c \in CallIds : HandlerRunStarts(c)
    \/ \E c \in CallIds :
         \E codex \in CodexOutcomesOf(handled[c].parsed),
            titleOutcome \in {"generated"},
            setOk \in (IF handled[c].parsed.type = "reset" THEN BOOLEAN ELSE {TRUE}) :
               HandlerRunSettles(c, codex, titleOutcome, setOk)
    \/ \E c \in CallIds : QueueItemSettles(c)
    \/ \E c \in CallIds : LockFinally(c)

\* the messages of the chats, each handled by a call that may overlap the others
HandlerLockInit ==
    /\ calls = NoCalls /\ nCalls = 0 /\ sessionQueue = EmptyQueue
    /\ sessionStore = EmptyStore /\ persistenceState = NoPersistence
    /\ file = NoFile /\ now = 0 /\ setLog = NothingLogged /\ lastSet = NothingSet
    /\ lastCall = NothingCalled
    /\ accumulator = createTurnAccumulator /\ seen = NothingSeen
    /\ turn = IdleTurn
    /\ client = NewClient /\ handled = NoHandledCalls
    /\ evaluated = NothingEvaluated

SpecHandlerLock == HandlerLockInit /\ [][HandlerLockNext]_vars

(***************************************************************************)
(* Properties                                                              *)
(***************************************************************************)
Started(c) == calls[c].st \in {"running", "ran", "done"}
Completed(c) == calls[c].st \in {"ran", "done"}

\* C1: for calls c1 before c2 on the same session key, the run function of c2
\* does not start before that of c1 has resolved or rejected, so no two run
\* functions of one key execute at once; calls on distinct keys are not ordered.
C1_SameKeyCallsRunInOrder ==
    \A c1, c2 \in CallIds :
        (c1 < c2 /\ calls[c1].st # "idle" /\ calls[c2].st # "idle"
            /\ calls[c1].key = calls[c2].key /\ Started(c2))
        => Completed(c1)

\* A second call on a key runs after the first has completed while a call on
\* another key is running.
C1_Witness ==
    \E c1, c2, c3 \in CallIds :
        /\ c1 < c2 /\ calls[c2].prev = c1
        /\ calls[c2].st = "running" /\ Completed(c1)
        /\ calls[c3].st = "running" /\ calls[c3].key # calls[c2].key

\* C2: a call behind a failed call still runs exactly once, after the failed
\* one has finished, and every caller receives the outcome of its own run
\* function only.
C2_FailureDoesNotBlockOrLeak ==
    \A c \in CallIds :
        /\ calls[c].runs <= 1
        /\ Started(c) => calls[c].runs = 1
        /\ calls[c].st = "done" =>
              calls[c].result = (IF calls[c].running = "fulfilled" THEN "ok" ELSE "fail")
        /\ (calls[c].st = "queued" /\ calls[c].prev # 0
               /\ calls[calls[c].prev].st = "done"
               /\ calls[calls[c].prev].running = "rejected")
           => ENABLED StartRun(c)

\* The call queued behind a failed call has run and delivered its own success.
C2_Witness ==
    \E c1, c2 \in CallIds :
        /\ calls[c2].prev = c1
        /\ calls[c1].st = "done" /\ calls[c1].result = "fail"
        /\ calls[c2].st = "done" /\ calls[c2].result = "ok" /\ calls[c2].runs = 1

\* The store was re-initialized for workspace w after key k was last written
\* there by a successful setSession, and k was not set or cleared since.
RestoredFrom(k) ==
    /\ persistenceState.ready
    /\ lastSet[k].kind = "untouched"
    /\ setLog[persistenceState.workspaceCwd][k].kind = "session"

\* C4 as stated: getSession(k) right after setSession(k, s) equals s, and after
\* resetSessionStore and initializeSessionStore on the same file and workspace
\* it still equals s in every field.
C4_RestartReturnsSameSession ==
    \A k \in Keys :
        /\ lastSet[k].kind = "session" => getSession(k) = lastSet[k].s
        /\ RestoredFrom(k) =>
              getSession(k) = setLog[persistenceState.workspaceCwd][k].s

\* C4 amended: getSession(k) right after setSession(k, s) equals s; after a
\* restart whose initializeSessionStore succeeds, getSession(k) has the
\* threadId, mode and model of s, the workspace the store was initialized for
\* as cwd, and the trimmed title of s (no title when it is blank).
C4_RestartReturnsPersistedFields ==
    \A k \in Keys :
        /\ lastSet[k].kind = "session" => getSession(k) = lastSet[k].s
        /\ RestoredFrom(k) =>
              LET s == setLog[persistenceState.workspaceCwd][k].s
                  got == getSession(k)
              IN /\ got.has
                 /\ got.threadId = s.threadId
                 /\ got.mode = s.mode
                 /\ got.model = s.model
                 /\ got.cwd = persistenceState.workspaceCwd
                 /\ got.title = IF s.title.has /\ Trim(s.title.chars) # <<>>
                                THEN Title(Trim(s.title.chars)) ELSE NoTitle

\* A session in plan mode with a title was restored by a restart.
C4_Witness ==
    \E k \in Keys :
        /\ RestoredFrom(k)
        /\ setLog[persistenceState.workspaceCwd][k].s.mode = "plan"
        /\ getSession(k).title.has

\* C3 as stated: once the child has exited before the call settled, the call
\* eventually settles (with the transport error), also when no timeout is
\* configured.
C3_ExitSettlesTheCall ==
    (turn.exited /\ turn.outerPc = "running" /\ ~TimeoutConfigured(turn.timeoutMs))
        ~> (turn.outerPc = "settled")

\* C5: a createCodexThread or runCodexTurn call that has settled, on whatever
\* path, has called dispose() on its client, and its child has been sent the
\* termination signal unless it had exited by itself.
C5_SettledCallHasDisposed ==
    turn.outerPc = "settled" =>
        /\ turn.disposeCalls >= 1
        /\ turn.readerClosed
        /\ turn.killed \/ turn.exited

\* A call settled with a result, no timer involved, and its child was signalled.
C5_Witness ==
    /\ turn.outerPc = "settled" /\ turn.outcome.kind = "ok"
    /\ turn.timer \in {"none", "cleared"}
    /\ turn.killed /\ turn.killSignals = 1

\* C6: once the timer of a positive timeout has fired on a pending operation,
\* the outcome of the call is the timeout error naming the configured time,
\* whatever the run function does afterwards, and the client has been disposed.
C6_TimeoutOutcome ==
    turn.timer = "fired" =>
        /\ turn.result = TimeoutError(turn.timeoutMs.ms)
        /\ turn.outerPc = "settled" => turn.outcome = TimeoutError(turn.timeoutMs.ms)
        /\ turn.disposeCalls >= 1
        /\ turn.killed \/ turn.exited

\* The call settled after its timer fired while the run function had been
\* rejected by the deferred or by the exit of the child.
C6_Witness ==
    /\ turn.timer = "fired" /\ turn.outerPc = "settled"
    /\ turn.runOutcome.kind \in {"deferred", "exit"}

\* C7: after notifications ending with a settling event, resolveTurnMessage
\* returns the last task-level message if one was observed, else the last
\* item-level agent message if one was observed, else null.
C7_ResolvePrefersTaskMessage ==
    seen.lastSettling =>
        resolveTurnMessage(accumulator) =
            (IF seen.task # Null THEN seen.task ELSE seen.item)

\* Both kinds of message were observed, with different texts, before the
\* settling event.
C7_Witness ==
    /\ seen.lastSettling
    /\ seen.task # Null /\ seen.item # Null /\ seen.task # seen.item

\* C8: turnCompleted never goes back to false and a turnError that was set is
\* never cleared back to null, whatever notification is applied.
C8_SettledIsForwardOnly ==
    [][ /\ accumulator.turnCompleted => accumulator'.turnCompleted
        /\ accumulator.turnError # Null => accumulator'.turnError # Null ]_vars

\* A turn/completed with status completed and no error was applied to an
\* accumulator that was settled with an error.
C8_Witness ==
    /\ seen.afterSettled /\ seen.errorBefore # Null
    /\ seen.last.method = "turn/completed" /\ seen.last.hasInner
    /\ seen.last.status = "completed" /\ seen.last.text = NoText

\* C9 as stated: a turn/completed notification of any payload shape sets
\* turnCompleted, sets turnError to the explicit error message if one is
\* carried, else to the generic failure text if the status is failed, else
\* leaves it, and fulfils the completion deferred if it was pending.
C9_TurnCompletedSettlesEveryShape ==
    seen.last.method = "turn/completed" =>
        /\ accumulator.turnCompleted
        /\ accumulator.turnError =
              (IF seen.last.text \notin {NoText, ""} THEN seen.last.text
               ELSE IF seen.last.status = "failed" THEN "Codex turn failed"
               ELSE seen.errorBefore)
        /\ turn.turnDoneResolved

TurnSettledStep ==
    /\ turn.pc = "awaitTurn" /\ turn'.pc = "ended"
    /\ turn.turnDone = "fulfilled"

\* C11 as stated: after the turn settles, the run function fails with
\* turnError whenever turnError is set (not null), even if a message was
\* recorded, and returns a result only when turnError is null.
C11_ErrorSetAlwaysFails ==
    [][ TurnSettledStep =>
          /\ accumulator.turnError # Null =>
                turn'.runOutcome = Outcome("turnError", accumulator.turnError)
          /\ turn'.runOutcome.kind = "ok" => accumulator.turnError = Null ]_vars

\* C12: when the turn settles without an error and the resolved message is
\* null, empty or whitespace-only, the run function fails with 'Codex did not
\* return a message'; a result always carries a non-blank message.
C12_BlankMessageFails ==
    /\ [][ TurnSettledStep /\ accumulator.turnError = Null
              /\ resolveTurnMessage(accumulator) \in {Null, "", " "}
            => turn'.runOutcome =
                  Outcome("noMessage", "Codex did not return a message") ]_vars
    /\ [](turn.runOutcome.kind = "ok" => turn.runOutcome.text \notin {Null, "", " "})

\* A turn settled without an error whose only recorded message was
\* whitespace, and the call failed for the missing message.
C12_Witness ==
    /\ turn.runOutcome = Outcome("noMessage", "Codex did not return a message")
    /\ accumulator.turnError = Null /\ accumulator.turnCompleted
    /\ resolveTurnMessage(accumulator) = " "

\* The persisted record ref holds what setSession wrote for session s.
RecordOf(ref, s) ==
    /\ ref.has
    /\ ref.threadId = s.threadId /\ ref.mode = s.mode /\ ref.model = s.model
    /\ ref.title = normalizeOptionalTitle(s.title)

IsPrefix(a, b) == Len(a) <= Len(b) /\ SubSeq(b, 1, Len(a)) = a

\* C13: after clearSession(k) following setSession(k, s) (both persisted),
\* getSession(k) is undefined, the file has no active record for k in the
\* current workspace, the history entry written by that setSession is still
\* in the file, and after a restart getSession(k) is still undefined.
C13_ClearKeepsHistory ==
    \A k \in Keys :
        LET w == persistenceState.workspaceCwd IN
        ( /\ persistenceState.ready
          /\ setLog[w][k].kind = "cleared" /\ setLog[w][k].s.has
          /\ lastSet[k].kind \in {"cleared", "untouched"} ) =>
            /\ ~getSession(k).has
            /\ ~file.doc.workspaces[w].activeBySessionKey[k].has
            /\ \E i \in 1..Len(file.doc.workspaces[w].historyBySessionKey[k]) :
                  RecordOf(file.doc.workspaces[w].historyBySessionKey[k][i],
                           setLog[w][k].s)

\* A session with a title was set and cleared, and the store was restarted
\* for the same workspace afterwards.
C13_Witness ==
    \E k \in Keys :
        /\ persistenceState.ready
        /\ setLog[persistenceState.workspaceCwd][k].kind = "cleared"
        /\ setLog[persistenceState.workspaceCwd][k].s.title.has
        /\ lastSet[k].kind = "untouched"

\* C14: over setSession, clearSession, resetSessionStore and
\* initializeSessionStore calls on one file, every history list in the file
\* only grows by appending at its end.
C14_HistoryIsAppendOnly ==
    [][ \A w \in Workspaces, k \in Keys :
           IsPrefix(file.doc.workspaces[w].historyBySessionKey[k],
                    file'.doc.workspaces[w].historyBySessionKey[k]) ]_vars

\* A history list of the file holds two entries of different threads.
C14_Witness ==
    \E w \in Workspaces, k \in Keys :
        /\ Len(file.doc.workspaces[w].historyBySessionKey[k]) = 2
        /\ file.doc.workspaces[w].historyBySessionKey[k][1].threadId
              # file.doc.workspaces[w].historyBySessionKey[k][2].threadId

\* C16: a session stored under k while the store was initialized for
\* workspace A is not returned by getSession(k) after the store was
\* re-initialized for another workspace B from the same file (where nothing
\* was stored under k), and it is returned after re-initializing for A.
C16_WorkspaceIsolation ==
    \A k \in Keys :
        LET w == persistenceState.workspaceCwd IN
        (persistenceState.ready /\ lastSet[k].kind = "untouched") =>
            /\ setLog[w][k].kind = "untouched" => ~getSession(k).has
            /\ setLog[w][k].kind = "session" =>
                  /\ getSession(k).has
                  /\ getSession(k).threadId = setLog[w][k].s.threadId
                  /\ getSession(k).mode = setLog[w][k].s.mode
                  /\ getSession(k).model = setLog[w][k].s.model

\* The store runs for a workspace in which nothing was stored under k, and
\* the file holds an active record for k written under the other workspace.
C16_Witness ==
    \E k \in Keys, a \in Workspaces :
        /\ persistenceState.ready /\ a # persistenceState.workspaceCwd
        /\ lastSet[k].kind = "untouched"
        /\ setLog[persistenceState.workspaceCwd][k].kind = "untouched"
        /\ setLog[a][k].kind = "session"
        /\ file.doc.workspaces[a].activeBySessionKey[k].has

\* C17: setSession and clearSession made while the store is initialized for
\* one workspace leave the persisted active and history records of every
\* other workspace of the file unchanged.
C17_OtherWorkspacesUnchanged ==
    [][ \A w \in Workspaces :
           w # persistenceState.workspaceCwd =>
              file'.doc.workspaces[w] = file.doc.workspaces[w] ]_vars

\* A session was stored under the current workspace while the file holds an
\* active record of the other workspace.
C17_Witness ==
    \E k, k2 \in Keys, a \in Workspaces :
        /\ persistenceState.ready /\ a # persistenceState.workspaceCwd
        /\ lastSet[k].kind = "session"
        /\ setLog[persistenceState.workspaceCwd][k].kind = "session"
        /\ file.doc.workspaces[a].activeBySessionKey[k2].has
        /\ file.doc.workspaces[persistenceState.workspaceCwd].activeBySessionKey[k].has

\* The parts sub occur next to each other in the message msg.
Contains(msg, sub) ==
    \E i \in 0..(Len(msg) - Len(sub)) :
        \A j \in 1..Len(sub) : msg[i + j] = sub[j]

\* C19: initializeSessionStore on an index file whose version is not 1 fails
\* with an error whose message contains 'version must be 1', and nothing of
\* that file is hydrated into the map.
C19_WrongVersionIsRejected ==
    [][ \A w \in Workspaces :
           (file.exists /\ file.doc.version # 1 /\ InitializeSessionStore(w)) =>
              /\ Contains(lastCall'.thrown, <<": version must be ", "1", ".">>)
              /\ sessionStore' = sessionStore
              /\ persistenceState' = persistenceState ]_vars

\* initializeSessionStore has thrown on an index of version 2 while the map
\* held a session set before.
C19_Witness ==
    /\ file.exists /\ file.doc.version = 2
    /\ lastCall.thrown # NoError
    /\ \E k \in Keys : getSession(k).has

\* The target of the index holds a complete serialization across a step: what
\* it held before, or the index object as the call left it.
TargetIsCompleteAcrossStep ==
    file.exists =>
        /\ file'.exists
        /\ file'.doc = file.doc \/ file'.doc = persistenceState'.data

\* C18 as stated: the target always holds the index as it was before or as it
\* is after a setSession/clearSession call, and when the write or the rename
\* fails the target is unchanged, the temporary file is removed and the error
\* is thrown.
C18_FailedWriteRemovesTemp ==
    [][ /\ TargetIsCompleteAcrossStep
        /\ (file.exists /\ file'.doc # file.doc) => lastCall'.thrown = NoError
        /\ lastCall'.thrown = IndexWriteError =>
              /\ file'.doc = file.doc
              /\ file'.temps = file.temps ]_vars

\* C18 amended: the target always holds the index as it was before or as it
\* is after the call; when the write or the rename fails the target is
\* unchanged and the error is thrown, and the temporary file is removed unless
\* its removal fails too, in which case it is left behind.
C18_FailedWriteKeepsTarget ==
    [][ /\ TargetIsCompleteAcrossStep
        /\ (file.exists /\ file'.doc # file.doc) => lastCall'.thrown = NoError
        /\ lastCall'.thrown = IndexWriteError =>
              /\ file'.doc = file.doc
              /\ file'.temps =
                    IF lastCall'.cleanup = "failed" THEN file.temps + 1 ELSE file.temps ]_vars

\* A write failed after the temporary file was created, its removal failed,
\* and the target still holds the index without the change of the call.
C18_Witness ==
    /\ lastCall.thrown = IndexWriteError /\ lastCall.cleanup = "failed"
    /\ file.temps = 1
    /\ persistenceState.ready /\ file.doc # persistenceState.data

\* The thread ids under which the file holds an active record of session key
\* k in workspace w (variant keyed by thread id).
ActiveRecordsOf(w, k) ==
    { t \in ThreadIds :
        /\ file.doc.workspaces[w].activeBySessionKey[t].has
        /\ file.doc.workspaces[w].activeBySessionKey[t].sessionKey = k }

\* C15: after any sequence of setSession and clearSession calls the persisted
\* index of each workspace holds at most one active record belonging to any
\* given session key.
C15_OneActiveRecordPerKey ==
    \A w \in Workspaces, k \in Keys : Cardinality(ActiveRecordsOf(w, k)) <= 1

\* A key that had a record under one thread was set to a session of another
\* thread: its only active record is the new one, the old thread keeps its
\* history entry.
C15_Witness ==
    \E w \in Workspaces, k \in Keys, t1, t2 \in ThreadIds :
        /\ t1 # t2
        /\ ActiveRecordsOf(w, k) = {t2}
        /\ Len(file.doc.workspaces[w].historyBySessionKey[t1]) = 1
        /\ file.doc.workspaces[w].historyBySessionKey[t1][1].sessionKey = k
        /\ file.doc.workspaces[w].historyBySessionKey[t2][1].savedAt
              > file.doc.workspaces[w].historyBySessionKey[t1][1].savedAt

Count(rq, m) == Cardinality({ i \in 1..Len(rq) : rq[i] = m })

Last(rq) == rq[Len(rq)]

\* runCodexTurn has got the collaboration modes and openThread has made its
\* first call of request().
ThreadOpenCalled ==
    /\ turn.op = "runTurn" /\ turn.modes # "none"
    /\ ~(turn.pc = "issue" /\ turn.method \in {"thread/resume", "thread/start"}
            /\ Count(turn.requested, turn.method) = 0)

\* C21: without a session, or with a session whose recorded cwd differs from
\* the requested cwd, openThread requests no thread/resume and exactly one
\* thread/start.
C21_NoSessionStartsOnce ==
    (turn.op = "runTurn" /\ turn.session \in {"null", "otherCwd"}) =>
        /\ Count(turn.requested, "thread/resume") = 0
        /\ Count(turn.requested, "thread/start") <= 1
        /\ ThreadOpenCalled => Count(turn.requested, "thread/start") = 1

\* A turn on a session recorded for another cwd has started its thread and
\* written turn/start.
C21_Witness ==
    /\ turn.op = "runTurn" /\ turn.session = "otherCwd"
    /\ turn.sent = <<"initialize", "collaborationMode/list", "thread/start",
                     "turn/start">>

\* C22: with a session of the requested cwd, thread/resume is requested
\* first; thread/start follows it only if the resume failed with the error
\* 'thread not found' or the resumed thread has another cwd; any other failure
\* of the resume is the outcome of the run function, with no thread/start; at
\* most one resume and one start are requested.
C22_ResumeFirstStartOnlyIfMissing ==
    (turn.op = "runTurn" /\ turn.session = "sameCwd") =>
        LET rq == turn.requested IN
        /\ Count(rq, "thread/resume") <= 1
        /\ Count(rq, "thread/start") <= 1
        /\ \A i \in 1..Len(rq) :
              rq[i] = "thread/start" =>
                 /\ i > 1 /\ rq[i - 1] = "thread/resume"
                 /\ \/ turn.resumed = RpcError("thread not found")
                    \/ turn.resumed = Outcome("ok", "okOtherCwd")
        /\ ( /\ turn.resumed.kind \notin {"pending", "ok"}
             /\ turn.resumed # RpcError("thread not found") ) =>
                 /\ Count(rq, "thread/start") = 0
                 /\ turn.pc = "ended" /\ turn.runOutcome = turn.resumed

\* The resume of the session's thread failed with 'thread not found', a new
\* thread was started and turn/start was written.
C22_Witness ==
    /\ turn.op = "runTurn" /\ turn.session = "sameCwd"
    /\ turn.resumed = RpcError("thread not found")
    /\ turn.sent = <<"initialize", "collaborationMode/list", "thread/resume",
                     "thread/start", "turn/start">>

\* The pairs of methods runCodexTurn may request one after the other.
TurnRequestOrder ==
    { <<"initialize", "collaborationMode/list">>,
      <<"collaborationMode/list", "thread/resume">>,
      <<"collaborationMode/list", "thread/start">>,
      <<"thread/resume", "thread/start">>,
      <<"thread/resume", "turn/start">>,
      <<"thread/start", "turn/start">> }

\* C23: runCodexTurn requests initialize, collaborationMode/list, the thread
\* (resume and/or start) and turn/start in this order, each one only after the
\* response to the one before was a success (a start may follow a resume that
\* failed with 'thread not found'); turn/start is requested only when the
\* requested collaboration mode is among the listed ones, so after any failed
\* step no turn/start is written.
C23_RequestsInOrder ==
    [][ (turn.op = "runTurn" /\ turn'.requested # turn.requested) =>
          LET m == Last(turn'.requested) IN
          /\ turn'.requested = Append(turn.requested, m)
          /\ turn'.sent \in {turn.sent, Append(turn.sent, m)}
          /\ IF turn.requested = <<>> THEN m = "initialize"
             ELSE LET prev == Last(turn.requested) IN
                  /\ <<prev, m>> \in TurnRequestOrder
                  /\ \/ turn.reqPromise.kind = "ok" /\ turn.reqPromise.text # "invalid"
                     \/ /\ prev = "thread/resume" /\ m = "thread/start"
                        /\ turn.reqPromise = RpcError("thread not found")
                  /\ m = "turn/start" => turn.modes = "ok" ]_vars

\* The thread was started but the requested collaboration mode is not among
\* the listed ones: the run function has failed and nothing was written after
\* thread/start.
C23_Witness ==
    /\ turn.op = "runTurn" /\ turn.modes = "okOtherModes"
    /\ turn.runOutcome = Outcome("modeUnavailable", "Collaboration mode is unavailable")
    /\ turn.sent = <<"initialize", "collaborationMode/list", "thread/start">>

\* C24: request() on a client whose child has exited rejects at once with the
\* exit message (built without a code or a signal, with the last stderr line)
\* and allocates no id, registers no pending entry and writes no line.
C24_RequestAfterExitRejects ==
    [][ (client.exited /\ ClientRequest) =>
          /\ client'.last.error = buildExitMessage("null", "null", client.stderr)
          /\ client'.last.wrote = <<>>
          /\ client'.nextId = client.nextId
          /\ client'.pending = client.pending
          /\ client'.requests = client.requests ]_vars

\* request() was called after the child of a client that had made one request
\* exited with a line on stderr.
C24_Witness ==
    /\ client.exited /\ client.nextId = 2
    /\ client.last.op = "request"
    /\ client.last.error = buildExitMessage("null", "null", "boom")

\* C25: when the child exits, every request pending at that moment is rejected
\* once, all with the one message built from the exit code, the signal and
\* the last stderr line; the other requests are left as they are and the
\* pending table is empty from then on.
C25_ExitRejectsEveryPending ==
    /\ [][ \A e \in ExitCodes :
             (~client.exited /\ ClientExit(e[1], e[2])) =>
                /\ client'.pending = {}
                /\ \A id \in RequestIds :
                      IF id \in client.pending
                      THEN /\ client'.requests[id].promise =
                                 Settled("exit", buildExitMessage(e[1], e[2], client.stderr))
                           /\ client.requests[id].settles = 0
                           /\ client'.requests[id].settles = 1
                      ELSE client'.requests[id] = client.requests[id] ]_vars
    /\ [](client.exited => client.pending = {})

\* Two requests were pending when the child exited with code 1 after a line
\* on stderr: both hold the same exit error.
C25_Witness ==
    \E id1, id2 \in RequestIds :
        /\ id1 # id2 /\ client.exited
        /\ client.requests[id1].promise =
              Settled("exit", buildExitMessage("1", "null", "boom"))
        /\ client.requests[id2].promise = client.requests[id1].promise

\* A line that is a response: an object without a string method, with a
\* numeric or string id and a result or an error object.
IsResponseLine(line) ==
    /\ line.json = "object" /\ line.method.kind # "string"
    /\ line.id.kind \in {"number", "string"}
    /\ line.hasResult \/ line.error.kind = "object"

\* The step is a call of handleStdoutLine.
LineHandled == client' # client /\ client'.last.op = "line"

\* C26: every pending request is settled at most once; a response line whose
\* id is that of a pending request resolves it, or rejects it with the error
\* formatted from code and message, removes it from the pending table and
\* leaves the other requests alone; any other line (no pending request of
\* that id, a second response, a line that does not parse) leaves the pending
\* table and every request unchanged.
C26_ResponseSettlesItsRequestOnce ==
    /\ [](\A id \in RequestIds : client.requests[id].settles <= 1)
    /\ [][ LineHandled =>
             LET line == client'.last.line IN
             IF /\ IsResponseLine(line) /\ line.id.kind = "number"
                /\ line.id.value \in client.pending
             THEN /\ client'.pending = client.pending \ {line.id.value}
                  /\ client'.requests[line.id.value].settles = 1
                  /\ client'.requests[line.id.value].promise =
                        IF line.error.kind = "object"
                        THEN Settled("rpc", <<"Codex RPC error (", "-32000", "): ", "boom">>)
                        ELSE Resolved
                  /\ \A id \in RequestIds \ {line.id.value} :
                        client'.requests[id] = client.requests[id]
             ELSE /\ client'.pending = client.pending
                  /\ client'.requests = client.requests ]_vars

\* A result with the id of a request that was rejected by an error response
\* came in while another request was pending.
C26_Witness ==
    /\ client.requests[1].promise.kind = "rpc" /\ client.requests[1].settles = 1
    /\ 2 \in client.pending
    /\ client.last.op = "line"
    /\ client.last.line =
          RpcLine("object", NoMethodField, IdField("number", 1), TRUE, NoErrorField)

\* The reply expected for the server requests of MethodNames: a result, or
\* the error for a method that is not supported.
CannedReply(name) ==
    CASE name = MethodName("item/commandExecution", "/requestApproval") ->
            <<"result", "accept, acceptSettings.forSession">>
      [] name = MethodName("item/other", "/requestApproval") -> <<"result", "accept">>
      [] name = MethodName("custom", "Approval") -> <<"result", "allow">>
      [] name = MethodName("item/tool/call", "") -> <<"result", "tool calls unavailable">>
      [] OTHER -> <<"error", "-32601">>

\* C27: a line with a string method and a numeric or string id that comes in
\* while the child is alive is answered by exactly one line with the same id,
\* holding the result canned for the method name or, for any other method,
\* the error -32601; it is not passed to the notification handler and touches
\* no pending request.
C27_ServerRequestAnsweredOnce ==
    [][ ( /\ LineHandled /\ ~client.exited
          /\ client'.last.line.json = "object"
          /\ client'.last.line.method.kind = "string"
          /\ client'.last.line.id.kind \in {"number", "string"} ) =>
             LET line == client'.last.line IN
             /\ client'.last.wrote =
                   << WrittenLine(CannedReply(line.method.name)[1], line.id,
                                  CannedReply(line.method.name)[2]) >>
             /\ client'.last.forwarded = 0
             /\ client'.pending = client.pending
             /\ client'.requests = client.requests ]_vars

\* A server request of an unsupported method, with the id of a pending
\* request, was answered with the error.
C27_Witness ==
    /\ ~client.exited /\ 1 \in client.pending
    /\ client.last.op = "line"
    /\ client.last.line.method = MethodField("string", MethodName("turn/completed", ""))
    /\ client.last.wrote = <<WrittenLine("error", IdField("number", 1), "-32601")>>

\* C28: for every line parseRpcLine returns null or a value of exactly one
\* kind: a server request (method and id), a notification (method, no id), a
\* success response (id and result) or an error response (id and error
\* object); no value it returns has both a result and an error.
C28_ParsedLineHasOneCategory ==
    client.last.op = "line" =>
        LET parsed == client.last.parsed
            kinds == { c \in {"request", "notification", "success", "error"} :
                         CASE c = "request" -> parsed.hasMethod /\ parsed.hasId
                           [] c = "notification" -> parsed.hasMethod /\ ~parsed.hasId
                           [] c = "success" -> ~parsed.hasMethod /\ parsed.hasId
                                                  /\ parsed.hasResult
                           [] c = "error" -> ~parsed.hasMethod /\ parsed.hasId
                                                /\ parsed.hasError
                                                /\ parsed.error.kind = "object" }
        IN /\ parsed = parseRpcLine(client.last.line)
           /\ parsed.isNull \/ Cardinality(kinds) = 1
           /\ ~(parsed.hasResult /\ parsed.hasError)
           /\ parsed.hasMethod => ~parsed.hasResult /\ ~parsed.hasError

\* A line with an id, a result and an error object was parsed.
C28_Witness ==
    /\ client.last.op = "line"
    /\ client.last.line.hasResult /\ client.last.line.error.kind = "object"
    /\ client.last.line.id.kind = "number"
    /\ ~client.last.parsed.isNull

\* C29 as stated: a line without a string method is parsed as a response only
\* if it has a numeric or string id and exactly one of result and error, and a
\* line with an id, a result and an error is parsed as null.
C29_ResponseHasExactlyOneField ==
    (client.last.op = "line" /\ client.last.line.json = "object"
        /\ client.last.line.method.kind # "string") =>
        LET line == client.last.line
            parsed == client.last.parsed
        IN /\ ~parsed.isNull =>
                 /\ line.id.kind \in {"number", "string"}
                 /\ line.hasResult # (line.error.kind # "absent")
           /\ (line.id.kind \in {"number", "string"} /\ line.hasResult
                  /\ line.error.kind # "absent") => parsed.isNull

\* The sessions that differ from before across a step.
ChangedKeys == { k \in Keys : sessionStore'[k] # sessionStore[k] }

\* What a successful prompt turn stores: thread, model and cwd of the result,
\* the mode the turn ran in, and as title the trimmed title the session had,
\* none when there was no session, else a generated or fallback title.
StoredByTurn(before, after, codex) ==
    /\ after.has
    /\ after.threadId = codex.threadId /\ after.model = codex.model
    /\ after.cwd = codex.cwd
    /\ after.mode = (IF before.has THEN before.mode ELSE "default")
    /\ after.title =
          IF before.has /\ before.title.has /\ Trim(before.title.chars) # <<>>
          THEN Title(Trim(before.title.chars))
          ELSE IF ~before.has THEN NoTitle
          ELSE IF handled'.titleCall = "generated" THEN GeneratedTitle
          ELSE FallbackTitle

\* The session of the key of the message changes only as its command says,
\* and no other key changes.
ChangesOnlyAsCommanded ==
    LET h == handled'
        before == sessionStore[h.key]
        after == sessionStore'[h.key]
    IN /\ ChangedKeys \subseteq {h.key}
       /\ after # before =>
             \/ /\ h.parsed.type = "new" /\ h.codex.ok
                /\ after = Session(h.codex.threadId, h.parsed.mode, h.codex.model,
                                    h.codex.cwd, NoTitle)
             \/ h.parsed.type = "prompt" /\ h.codex.ok /\ StoredByTurn(before, after, h.codex)
             \/ /\ h.parsed.type = "mode" /\ before.has
                /\ after = [before EXCEPT !.mode = h.parsed.mode]
             \/ h.parsed.type = "reset" /\ after = NoSession

\* The step is a call of handleIncomingText.
MessageHandled == handled' # handled \/ sessionStore' # sessionStore

\* C30 as stated: the session of a key changes only on a successful /new, a
\* successful prompt turn, /mode on an existing session and /reset; whenever
\* a createThread or runTurn call fails, the reply is an error and the session
\* of the key is what it was before.
C30_AnyCodexFailureKeepsSession ==
    [][ MessageHandled =>
          /\ ChangesOnlyAsCommanded
          /\ ( \/ handled'.parsed.type \in {"new", "prompt"} /\ ~handled'.codex.ok
               \/ handled'.titleCall = "failed" ) =>
                 /\ handled'.reply = "error"
                 /\ sessionStore'[handled'.key] = sessionStore[handled'.key] ]_vars

\* C30 amended: the session of a key changes only on a /new whose createThread
\* succeeded (set to the created session), a prompt whose runTurn succeeded
\* (set from the turn result, with the kept, generated or fallback title),
\* /mode on an existing session (mode only) and /reset (removed); when
\* createThread or the runTurn of the prompt fails, the reply is an error and
\* the session of the key is what it was before. A failure of the runTurn
\* that asks for a title only makes the title the fallback one.
C30_PromptFailureKeepsSession ==
    [][ MessageHandled =>
          /\ ChangesOnlyAsCommanded
          /\ (handled'.parsed.type \in {"new", "prompt"} /\ ~handled'.codex.ok) =>
                 /\ handled'.reply = "error"
                 /\ sessionStore'[handled'.key] = sessionStore[handled'.key]
          /\ handled'.titleCall = "failed" =>
                 /\ handled'.reply \in {"message", "error"}
                 /\ sessionStore'[handled'.key].title = FallbackTitle ]_vars

\* A prompt failed on a key that holds a session in plan mode while the other
\* key holds a session too: the reply is an error and both are kept.
C30_Witness ==
    /\ handled.parsed.type = "prompt" /\ ~handled.codex.ok
    /\ handled.reply = "error"
    /\ \A k \in Keys : sessionStore[k].has
    /\ sessionStore[handled.key].mode = "plan"

\* Two calls of getSessionKey have been made.
TwoKeysEvaluated ==
    /\ evaluated.fn = "getSessionKey"
    /\ evaluated.previous # NoEvaluation

\* The two inputs are the same tuple, or two tuples of a direct chat that
\* differ in the user id only.
SameKeyExpected(a, b) ==
    \/ a = b
    \/ a.chatType = "p2p" /\ b.chatType = "p2p" /\ a.chatId = b.chatId

\* C31: getSessionKey is deterministic and gives distinct (chatType, chatId,
\* userId) tuples distinct keys, except that in a "p2p" chat the user id is
\* ignored; two users of one group chat get different keys.
C31_DistinctTuplesDistinctKeys ==
    TwoKeysEvaluated =>
        LET a == evaluated.previous
            b == evaluated.last
        IN (a.key = b.key) <=> SameKeyExpected(a.input, b.input)

\* The mask matches the requested mode by its mode or by its lower-cased name.
MaskMatches(mask, mode) == mask.mode = mode \/ toLowerCase(mask.name) = mode

\* C32: selectCollaborationModePayload returns, for the first mask whose mode
\* is the requested mode or whose lower-cased name is, the payload of the
\* requested mode with the caller's model and the reasoning_effort and
\* developer_instructions of that mask; when no mask matches it fails with
\* the message Collaboration mode "<mode>" is unavailable.
C32_PayloadOfFirstMatchingMask ==
    evaluated.fn = "selectCollaborationModePayload" =>
        LET e == evaluated
            first == {i \in DOMAIN e.masks :
                        /\ MaskMatches(e.masks[i], e.mode)
                        /\ \A j \in 1..(i - 1) : ~MaskMatches(e.masks[j], e.mode)}
        IN /\ first = {} =>
                /\ ~e.result.ok
                /\ e.result.error = <<"Collaboration mode \"", e.mode, "\" is unavailable">>
           /\ \A i \in first :
                /\ e.result.ok
                /\ e.result.payload.mode = e.mode
                /\ e.result.payload.settings =
                      [model |-> e.model,
                       reasoning_effort |-> e.masks[i].reasoning_effort,
                       developer_instructions |-> e.masks[i].developer_instructions]

\* Two masks match the plan mode, the first one by its name only, and they
\* carry different settings; the payload holds the settings of the first.
C32_Witness ==
    /\ evaluated.fn = "selectCollaborationModePayload"
    /\ evaluated.mode = "plan" /\ Len(evaluated.masks) = 2
    /\ evaluated.masks[1].mode = "null" /\ evaluated.masks[1].name = "Plan"
    /\ evaluated.masks[2].mode = "plan"
    /\ evaluated.masks[1].reasoning_effort # evaluated.masks[2].reasoning_effort
    /\ evaluated.result.ok
    /\ evaluated.result.payload.settings.reasoning_effort = evaluated.masks[1].reasoning_effort
    /\ evaluated.result.payload.settings.model = "opened-model"

\* The withSessionLock calls made on the key, and the last of them.
CallsOn(k) == {c \in CallIds : calls[c].st # "idle" /\ calls[c].key = k}
TailOf(k) == CHOOSE c \in CallsOn(k) : \A d \in CallsOn(k) : d <= c

\* C33: when no withSessionLock call on a key is in progress (each has run
\* its finally block), sessionQueue holds no entry for the key; while a call
\* on the key is still waiting or running its function, whichever earlier
\* call finishes, the entry stays and is the queue item of the last call made.
C33_QueueEntryWhileCallsPending ==
    \A k \in Keys :
        /\ (\A c \in CallsOn(k) : calls[c].st = "done") => sessionQueue[k] = 0
        /\ (\E c \in CallsOn(k) : calls[c].st \in {"queued", "running"}) =>
              sessionQueue[k] = TailOf(k)

\* On one key the first call has finished while the second is still running
\* and the third waits: the entry is that of the third; on the other key
\* nothing is in progress and there is no entry.
C33_Witness ==
    \E k \in Keys :
        /\ calls[1].key = k /\ calls[1].st = "done"
        /\ calls[2].key = k /\ calls[2].st = "running"
        /\ calls[3].key = k /\ calls[3].st = "queued"
        /\ sessionQueue[k] = 3
        /\ \A j \in Keys \ {k} : sessionQueue[j] = 0

\* The index in memory holds an active record for the key in the current workspace.
HasActiveRecord(k) ==
    /\ persistenceState.ready
    /\ persistenceState.data.workspaces[persistenceState.workspaceCwd].present
    /\ persistenceState.data.workspaces[persistenceState.workspaceCwd]
          .activeBySessionKey[k].has

\* C34: clearSession(k), when the current workspace holds no active record
\* for k, writes no file and leaves the persisted index as it was, its
\* updatedAt stamp and every history list included; nothing is thrown.
C34_ClearWithoutRecordWritesNothing ==
    [][ \A k \in Keys :
          ( /\ ~HasActiveRecord(k)
            /\ \E io \in StoreWriteOutcomes : ClearSession(k, io) ) =>
              /\ file' = file
              /\ persistenceState' = persistenceState
              /\ lastCall' = Returned ]_vars

\* clearSession was called for a key that never had a record in the current
\* workspace, while the index holds an active record of another key and a
\* history for it.
C34_Witness ==
    \E k \in Keys, j \in Keys :
        LET w == persistenceState.workspaceCwd IN
        /\ j # k
        /\ persistenceState.ready
        /\ lastSet[k].kind = "cleared" /\ setLog[w][k].kind = "untouched"
        /\ file.exists /\ file.doc.workspaces[w].present
        /\ file.doc.workspaces[w].activeBySessionKey[j].has
        /\ Len(file.doc.workspaces[w].historyBySessionKey[j]) > 0
        /\ file.doc.updatedAt > 0

\* C35: whatever resetSessionStore and initializeSessionStore calls are made
\* while a run function of a key is executing, the run function of a later
\* withSessionLock call on that key does not start before the earlier one
\* has finished.
C35_ExclusionSurvivesReset ==
    [][ \A c \in CallIds :
          (calls[c].st = "queued" /\ calls'[c].st = "running") =>
              \A d \in CallIds \ {c} :
                  calls[d].key = calls[c].key => calls[d].st # "running" ]_vars

\* C36: the completion deferred of runCodexTurn is fulfilled only by a
\* settling notification (error or turn/completed) received after the
\* turn/start request was issued; one that arrives during initialize,
\* collaborationMode/list, thread/resume or thread/start does not complete
\* the turn.
C36_OnlyNotificationsAfterTurnStartSettle ==
    [][ ( /\ turn.op = "runTurn"
          /\ turn.turnDone = "pending" /\ turn'.turnDone = "fulfilled" ) =>
            Count(turn.requested, "turn/start") = 1 ]_vars

\* What the run function reports when it resumes from the await with this
\* accumulator.
ReportedWith(acc) == AfterTurnDone(turn, acc).runOutcome

\* C38: once the completion deferred is fulfilled, a notification delivered
\* afterwards (task message, item message, error, second turn/completed)
\* changes nothing of what runCodexTurn reports: failure or not, the error
\* text, the returned message. Stated for the notifications handled while the
\* run function is suspended at the await of the fulfilled deferred.
C38_LateNotificationsKeepOutcome ==
    [][ ( /\ turn.op = "runTurn"
          /\ turn.turnDone = "fulfilled" /\ turn.pc = "awaitTurn"
          /\ accumulator' # accumulator ) =>
            ReportedWith(accumulator') = ReportedWith(accumulator) ]_vars

\* C37: when the timeout fires while runCodexTurn is in a step before the
\* await of the completion deferred (initialize, mode list, thread open,
\* turn/start), the caller gets the timeout error and nothing else, and the
\* rejection of the deferred is not left without a handler.
C37_EarlyTimeoutLeavesNoUnhandledRejection ==
    [][ ( /\ turn.op = "runTurn"
          /\ turn.timer = "armed" /\ turn'.timer = "fired"
          /\ turn.pc # "awaitTurn" ) =>
            /\ turn'.result = TimeoutError(turn.timeoutMs.ms)
            /\ ~turn'.unhandledRejection ]_vars

\* The store has just been initialized again for its workspace: no key was
\* set or cleared since.
Restarted ==
    /\ persistenceState.ready
    /\ \A k \in Keys : lastSet[k].kind = "untouched"

\* C39: after successful setSession and clearSession calls over any keys (two
\* keys may hold sessions of one thread), resetSessionStore followed by
\* initializeSessionStore on the same file and workspace gives back the
\* mapping that was in memory: the same keys, each with the same threadId,
\* mode and model.
C39_RestartReproducesMapping ==
    Restarted =>
        \A k \in Keys :
            LET before == setLog[persistenceState.workspaceCwd][k]
                got == getSession(k)
            IN /\ before.kind = "session" =>
                    /\ got.has
                    /\ got.threadId = before.s.threadId
                    /\ got.mode = before.s.mode
                    /\ got.model = before.s.model
               /\ before.kind \in {"cleared", "untouched"} => ~got.has

\* C40: of two handleIncomingText calls on one session key that overlap, the
\* second reads the session only after the run function of the first has
\* ended, and the session it reads (and passes to runTurn) is the one the
\* first left under the key: no lost update, no stale thread id.
C40_SecondCallReadsWhatFirstStored ==
    \A c \in CallIds :
        (Started(c) /\ calls[c].prev # 0) =>
            /\ Completed(calls[c].prev)
            /\ handled[c].currentSession = handled[calls[c].prev].after

\* A prompt was sent while the run function of an earlier prompt on the key
\* was executing and the key had no session; the first stored the session of
\* the thread Codex opened, and the second read that session.
C40_Witness ==
    \E c \in CallIds :
        /\ Started(c) /\ calls[c].prev # 0
        /\ handled[c].parsed.type = "prompt"
        /\ handled[calls[c].prev].parsed.type = "prompt"
        /\ ~handled[c].atCall.has
        /\ handled[c].currentSession.has
        /\ handled[c].currentSession.threadId = <<"t", "1">>
        /\ handled[c].currentSession = handled[calls[c].prev].after

====
